---- MODULE Spec2Model ----
(***************************************************************************)
(* Formula engine of the spreadsheet (src/src/utils/spreadsheet.ts).       *)
(*                                                                         *)
(* Strings are sequences of one-character strings, so that trimming,       *)
(* tokenizing, regular-expression tests, Number() and String() are         *)
(* computed character by character as the code computes them.              *)
(* Numbers are exact rationals [n, d] (d = 0 stands for NaN); the literals *)
(* explored keep every quotient dyadic, where IEEE doubles are exact, so   *)
(* String(Number) is the plain decimal expansion.  A finite number near    *)
(* the top of the double range is kept as its coefficient of 10^308, so    *)
(* that a sum can leave the double range.  Hexadecimal spellings do not    *)
(* occur in the explored texts.                                            *)
(*                                                                         *)
(* evaluateFormula is a recursive function whose recursive-descent parser  *)
(* is suspended while a referenced cell is evaluated.  It is modelled as a *)
(* machine with an explicit stack of evaluateFormula frames; each frame    *)
(* carries its token list, its position and the continuations of the       *)
(* parse functions that are suspended in it.                               *)
(*                                                                         *)
(* The Spreadsheet component (src/src/components/RowLabel.tsx, with the    *)
(* input handlers of src/src/components/Cell.tsx) is a second machine over *)
(* its state hooks: one step is a handler, or a timer callback, with the   *)
(* render and the effects that follow it.  The title hooks, the focus      *)
(* effect and the memoized display grid hold no state the handlers read    *)
(* and are left out.                                                       *)
(***************************************************************************)
EXTENDS Integers, Sequences, FiniteSets, TLC

(* ------------------------------ bounds --------------------------------- *)
\* grid.length and grid[0].length of the grids explored
NumRows == 2
NumCols == 2
\* fraction digits String(number) may print before the expansion is cut
MaxFracDigits == 12
\* decimal exponents the integers of the model can shift a literal by
MaxExp == 6
\* column indices and row indices of the labels that are formatted and parsed
MaxColumn == 702
MaxRow == 10
\* largest maxRows and maxCols the ranges are expanded under
RangeRows == 3
RangeCols == 3

(* ---------------------------- characters ------------------------------- *)
UpperSeq == <<"A","B","C","D","E","F","G","H","I","J","K","L","M",
              "N","O","P","Q","R","S","T","U","V","W","X","Y","Z">>
LowerSeq == <<"a","b","c","d","e","f","g","h","i","j","k","l","m",
              "n","o","p","q","r","s","t","u","v","w","x","y","z">>
DigitSeq == <<"0","1","2","3","4","5","6","7","8","9">>

Range(s) == { s[i] : i \in DOMAIN s }
UpperChars == Range(UpperSeq)
LowerChars == Range(LowerSeq)
DigitChars == Range(DigitSeq)
LetterChars == UpperChars \cup LowerChars
\* whitespace skipped by the tokenizer and removed by trim()
WhiteSpace == {" ", "\t", "\n"}
\* /[()+\-*/]/
OperatorChars == {"(", ")", "+", "-", "*", "/"}
\* /[0-9.]/
NumberChars == DigitChars \cup {"."}
\* /[A-Za-z0-9]/
IdentChars == LetterChars \cup DigitChars

IndexIn(seq, ch) == CHOOSE i \in DOMAIN seq : seq[i] = ch
\* charCodeAt(i) - 64 of an upper-case letter
LetterCode(ch) == IndexIn(UpperSeq, ch)
DigitVal(ch) == IndexIn(DigitSeq, ch) - 1
UpperCh(ch) == IF ch \in LowerChars THEN UpperSeq[IndexIn(LowerSeq, ch)] ELSE ch

(* ------------------------------ strings -------------------------------- *)
toUpperCase(s) == [i \in 1..Len(s) |-> UpperCh(s[i])]

RECURSIVE TrimLeft(_)
TrimLeft(s) == IF s # <<>> /\ Head(s) \in WhiteSpace THEN TrimLeft(Tail(s)) ELSE s

RECURSIVE TrimRight(_)
TrimRight(s) ==
  IF s # <<>> /\ s[Len(s)] \in WhiteSpace THEN TrimRight(SubSeq(s, 1, Len(s) - 1)) ELSE s

trim(s) == TrimRight(TrimLeft(s))

startsWith(s, ch) == s # <<>> /\ Head(s) = ch

AllIn(s, chars) == \A i \in DOMAIN s : s[i] \in chars

\* String.prototype.split(sep) for a one-character separator
RECURSIVE split(_, _)
split(s, sep) ==
  IF \A i \in DOMAIN s : s[i] # sep
  THEN <<s>>
  ELSE LET p == CHOOSE i \in DOMAIN s : s[i] = sep /\ \A j \in 1..(i - 1) : s[j] # sep
       IN <<SubSeq(s, 1, p - 1)>> \o split(SubSeq(s, p + 1, Len(s)), sep)

\* Array.prototype.join('')
RECURSIVE join(_)
join(parts) == IF parts = <<>> THEN <<>> ELSE Head(parts) \o join(Tail(parts))

\* end (exclusive) of the maximal run of chars that starts at i
RECURSIVE RunEnd(_, _, _)
RunEnd(s, i, chars) ==
  IF i <= Len(s) /\ s[i] \in chars THEN RunEnd(s, i + 1, chars) ELSE i

(* ------------------------------ numbers -------------------------------- *)
NaN == [n |-> 0, d |-> 0]
\* Infinity and -Infinity
Infinity(negative) == [n |-> IF negative THEN -1 ELSE 1, d |-> 0]
Abs(x) == IF x < 0 THEN -x ELSE x

RECURSIVE GCD(_, _)
GCD(a, b) == IF b = 0 THEN a ELSE GCD(b, a % b)

\* the rational n/d in lowest terms, d > 0
Rat(n, d) ==
  LET g == GCD(Abs(n), d)
      q == Abs(n) \div g
  IN [n |-> IF n < 0 THEN -q ELSE q, d |-> d \div g]

Int2Rat(i) == [n |-> i, d |-> 1]

\* a finite number at the top of the double range is kept as its
\* coefficient: [n, d, huge] stands for (n/d) * 10^HugeExp
HugeExp == 308
IsHuge(q) == "huge" \in DOMAIN q
\* Number.MAX_VALUE is 1.7976931348623157e308; a magnitude above it is
\* infinite (the coefficients explored have at most two digits)
Huge(c) ==
  IF c.n = 0 THEN c
  ELSE IF Abs(c.n) * 10000000 > 17976931 * c.d THEN Infinity(c.n < 0)
  ELSE [n |-> c.n, d |-> c.d, huge |-> TRUE]

Neg(a) == [a EXCEPT !.n = -a.n]
\* a + b: an infinite operand stays, and a huge operand absorbs a plain one
\* (the plain numbers explored are far below half its unit in the last place)
Add(a, b) ==
  IF a.d = 0 \/ b.d = 0
  THEN (IF a.d = 0 /\ b.d = 0 /\ a # b THEN NaN ELSE IF a.d = 0 THEN a ELSE b)
  ELSE IF IsHuge(a) /\ IsHuge(b) THEN Huge(Rat(a.n * b.d + b.n * a.d, a.d * b.d))
  ELSE IF IsHuge(a) THEN a
  ELSE IF IsHuge(b) THEN b
  ELSE Rat(a.n * b.d + b.n * a.d, a.d * b.d)
Sub(a, b) == Add(a, Neg(b))
Mul(a, b) ==
  IF a.d = 0 \/ b.d = 0
  THEN (IF a.n = 0 \/ b.n = 0 THEN NaN ELSE Infinity((a.n < 0) # (b.n < 0)))
  ELSE IF IsHuge(a) /\ IsHuge(b) THEN Infinity((a.n < 0) # (b.n < 0))
  ELSE IF IsHuge(a) \/ IsHuge(b) THEN Huge(Rat(a.n * b.n, a.d * b.d))
  ELSE Rat(a.n * b.n, a.d * b.d)
\* the quotient of two coefficients, b.n # 0
Quotient(a, b) == IF b.n < 0 THEN Rat(-(a.n * b.d), a.d * (-b.n)) ELSE Rat(a.n * b.d, a.d * b.n)
\* a / b for a finite b # 0 that is huge only if a is
Div(a, b) ==
  IF a.d = 0 THEN (IF a.n = 0 THEN NaN ELSE Infinity((a.n < 0) # (b.n < 0)))
  ELSE IF IsHuge(a) /\ ~IsHuge(b) THEN Huge(Quotient(a, b))
  ELSE Quotient(a, b)
\* a < b for finite a and b
Less(a, b) ==
  IF IsHuge(a) = IsHuge(b) THEN a.n * b.d < b.n * a.d
  ELSE IF IsHuge(a) THEN a.n < 0
  ELSE b.n > 0

RECURSIVE Pow10(_)
Pow10(k) == IF k = 0 THEN 1 ELSE 10 * Pow10(k - 1)

RECURSIVE DigitsVal(_)
DigitsVal(ds) ==
  IF ds = <<>> THEN 0 ELSE 10 * DigitsVal(SubSeq(ds, 1, Len(ds) - 1)) + DigitVal(ds[Len(ds)])

\* an unsigned decimal literal: digits, digits.digits, digits. or .digits
\* the digits ip before and fp after the decimal point
Decimal(ip, fp, scale) ==
  IF Len(ip) + Len(fp) = 0 THEN NaN ELSE Rat(DigitsVal(ip \o fp), scale)

Mantissa(t) ==
  LET dots == { i \in DOMAIN t : t[i] = "." }
  IN IF t = <<>> \/ ~AllIn(t, NumberChars) \/ Cardinality(dots) > 1 THEN NaN
     ELSE IF dots = {} THEN Decimal(t, <<>>, 1)
     ELSE LET p == CHOOSE i \in dots : TRUE
          IN Decimal(SubSeq(t, 1, p - 1), SubSeq(t, p + 1, Len(t)), Pow10(Len(t) - p))

\* m * 10^x; the integers of the model hold exponents up to MaxExp around 0
\* and around HugeExp, and no text explored has an exponent between them
RECURSIVE Scaled(_, _)
Scaled(m, x) ==
  IF m.d = 0 \/ m.n = 0 THEN m
  ELSE IF 0 <= x /\ x <= MaxExp THEN Rat(m.n * Pow10(x), m.d)
  ELSE IF -MaxExp <= x /\ x < 0 THEN Rat(m.n, m.d * Pow10(-x))
  ELSE IF Abs(x - HugeExp) <= MaxExp THEN Huge(Scaled(m, x - HugeExp))
  ELSE IF x > HugeExp THEN Infinity(FALSE)
  ELSE NaN

\* the exponent part after 'e' or 'E': an optionally signed run of digits
ExponentPart(m, t) ==
  LET ds == IF t # <<>> /\ Head(t) \in {"+", "-"} THEN Tail(t) ELSE t
  IN IF ds = <<>> \/ ~AllIn(ds, DigitChars) THEN NaN
     ELSE Scaled(m, IF Head(t) = "-" THEN -DigitsVal(ds) ELSE DigitsVal(ds))

\* an unsigned numeric literal: Infinity, or a decimal literal with an
\* optional exponent part
UnsignedDecimal(t) ==
  LET es == { i \in DOMAIN t : t[i] \in {"e", "E"} }
  IN IF t = <<"I","n","f","i","n","i","t","y">> THEN Infinity(FALSE)
     ELSE IF es = {} THEN Mantissa(t)
     ELSE LET p == CHOOSE i \in es : \A j \in es : i <= j
          IN ExponentPart(Mantissa(SubSeq(t, 1, p - 1)), SubSeq(t, p + 1, Len(t)))

\* Number(text): white space is trimmed, the empty text is 0, anything that
\* is not an optionally signed decimal literal is NaN
WithSign(negative, v) == IF negative /\ v # NaN THEN Neg(v) ELSE v

SignedDecimal(t) ==
  IF t = <<>> THEN Int2Rat(0)
  ELSE WithSign(Head(t) = "-", UnsignedDecimal(IF Head(t) \in {"+", "-"} THEN Tail(t) ELSE t))

Number(s) == SignedDecimal(trim(s))

isFinite(q) == q.d # 0

RECURSIVE NatStr(_)
NatStr(k) == IF k < 10 THEN <<DigitSeq[k + 1]>> ELSE NatStr(k \div 10) \o <<DigitSeq[(k % 10) + 1]>>

RECURSIVE FracStr(_, _, _)
FracStr(rem, d, k) ==
  IF rem = 0 \/ k = 0 THEN <<>>
  ELSE <<DigitSeq[((rem * 10) \div d) + 1]>> \o FracStr((rem * 10) % d, d, k - 1)

\* the decimal expansion of a plain number; -0 prints as "0"
Fixed(q) ==
  LET a == Abs(q.n)
      frac == FracStr(a % q.d, q.d, MaxFracDigits)
  IN (IF q.n < 0 THEN <<"-">> ELSE <<>>)
     \o NatStr(a \div q.d)
     \o (IF frac = <<>> THEN <<>> ELSE <<".">> \o frac)

\* the exponent notation of c * 10^x
RECURSIVE Scientific(_, _)
Scientific(c, x) ==
  IF Abs(c.n) < c.d THEN Scientific(Rat(c.n * 10, c.d), x - 1)
  ELSE Fixed(c) \o <<"e", "+">> \o NatStr(x)

\* String(number)
String(q) ==
  IF q.d = 0
  THEN (IF q.n = 0 THEN <<"N","a","N">>
        ELSE (IF q.n < 0 THEN <<"-">> ELSE <<>>) \o <<"I","n","f","i","n","i","t","y">>)
  ELSE IF IsHuge(q) THEN Scientific([n |-> q.n, d |-> q.d], HugeExp)
  ELSE Fixed(q)

isNumeric(value) == trim(value) # <<>> /\ isFinite(Number(value))

stripCurrencyFormatting(value) ==
  LET trimmed == trim(value)
  IN SelectSeq(trimmed, LAMBDA ch : ch \notin {"$", ","})

(* ---------------------------- address codec ---------------------------- *)
RECURSIVE getColumnLabelLoop(_, _)
getColumnLabelLoop(temp, label) ==
  IF temp > 0
  THEN getColumnLabelLoop((temp - 1) \div 26, <<UpperSeq[((temp - 1) % 26) + 1]>> \o label)
  ELSE label

getColumnLabel(index) == getColumnLabelLoop(index + 1, <<>>)

getCellLabel(row, col) == getColumnLabel(col) \o NatStr(row + 1)

\* /^[A-Z]+[1-9][0-9]*$/i ; peek() past the last token is undefined, which
\* test() reads as the text "undefined": no match.  Undefined is <<>>.
CELL_REF_REGEX(t) ==
  LET k == RunEnd(t, 1, LetterChars)
  IN /\ k > 1
     /\ k <= Len(t)
     /\ t[k] \in DigitChars \ {"0"}
     /\ AllIn(SubSeq(t, k, Len(t)), DigitChars)

\* colIndex of the letters of a label (before the bounds test)
RECURSIVE ColIndexLoop(_, _)
ColIndexLoop(colPart, colIndex) ==
  IF colPart = <<>> THEN colIndex
  ELSE ColIndexLoop(Tail(colPart), colIndex * 26 + LetterCode(Head(colPart)))

\* a faulty variant: the index stays one-based
ColIndexOneBased(colPart) == ColIndexLoop(colPart, 0)

ColIndex(colPart) == ColIndexLoop(colPart, 0) - 1
\* parseInt(rowPart, 10) - 1
RowIndex(rowPart) == DigitsVal(rowPart) - 1

Null == [ok |-> FALSE, row |-> 0, col |-> 0]

\* a faulty variant: the bounds test is off by one
InBoundsInclusive(rowIndex, colIndex, maxRows, maxCols) ==
  ~(rowIndex < 0 \/ rowIndex > maxRows \/ colIndex < 0 \/ colIndex > maxCols)

InBounds(rowIndex, colIndex, maxRows, maxCols) ==
  ~(rowIndex < 0 \/ rowIndex >= maxRows \/ colIndex < 0 \/ colIndex >= maxCols)

\* a faulty variant: an address beyond the bounds is returned like any other
AddressUnbounded(rowIndex, colIndex, maxRows, maxCols) ==
  [ok |-> TRUE, row |-> rowIndex, col |-> colIndex]

Address(rowIndex, colIndex, maxRows, maxCols) ==
  IF ~InBounds(rowIndex, colIndex, maxRows, maxCols) THEN Null
  ELSE [ok |-> TRUE, row |-> rowIndex, col |-> colIndex]

\* trimmed matches /^([A-Z]+)([1-9][0-9]*)$/ and its letters end before k
AddressAt(trimmed, k, maxRows, maxCols) ==
  Address(RowIndex(SubSeq(trimmed, k, Len(trimmed))), ColIndex(SubSeq(trimmed, 1, k - 1)),
          maxRows, maxCols)

AddressOf(trimmed, maxRows, maxCols) ==
  IF ~CELL_REF_REGEX(trimmed) THEN Null
  ELSE AddressAt(trimmed, RunEnd(trimmed, 1, UpperChars), maxRows, maxCols)

parseCellAddress(label, maxRows, maxCols) == AddressOf(toUpperCase(trim(label)), maxRows, maxCols)

RECURSIVE RowMajor(_, _, _, _, _)
RowMajor(r, c, c0, r1, c1) ==
  IF r > r1 THEN <<>>
  ELSE IF c > c1 THEN RowMajor(r + 1, c0, c0, r1, c1)
  ELSE <<[row |-> r, col |-> c]>> \o RowMajor(r, c + 1, c0, r1, c1)

\* a faulty variant: the endpoints are not sorted
Min2First(a, b) == a

Min2(a, b) == IF a <= b THEN a ELSE b
Max2(a, b) == IF a <= b THEN b ELSE a

Rectangle(start, end) ==
  IF ~start.ok \/ ~end.ok THEN <<>>
  ELSE RowMajor(Min2(start.row, end.row), Min2(start.col, end.col), Min2(start.col, end.col),
                Max2(start.row, end.row), Max2(start.col, end.col))

\* const [startLabel, endLabel] = range.split(':')
RangeOf(parts, maxRows, maxCols) ==
  IF parts[1] = <<>> \/ Len(parts) < 2 \/ parts[2] = <<>> THEN <<>>
  ELSE Rectangle(parseCellAddress(parts[1], maxRows, maxCols),
                 parseCellAddress(parts[2], maxRows, maxCols))

parseRange(range, maxRows, maxCols) == RangeOf(split(range, ":"), maxRows, maxCols)

(* ------------------------------ sentinels ------------------------------ *)
ERROR == <<"#","E","R","R","O","R">>
ERROR_REF == ERROR \o <<":","R","E","F">>
ERROR_VALUE == ERROR \o <<":","V","A","L","U","E">>
ERROR_DIV0 == ERROR \o <<":","D","I","V","0">>
ERROR_ARGS == ERROR \o <<":","A","R","G","S">>
ERROR_FUNC == ERROR \o <<":","F","U","N","C">>
CYCLE == <<"#","C","Y","C","L","E">>
BURNRATE == <<"B","U","R","N","R","A","T","E","(",")">>

isErrorValue(value) == startsWith(value, "#")

(* --------------------------------- grid -------------------------------- *)
\* grid[row][col] with the 0-based indices of the code
GridRows(g) == Len(g)
GridCols(g) == IF Len(g) = 0 THEN 0 ELSE Len(g[1])
Cell(g, row, col) == g[row + 1][col + 1]

\* a faulty variant: a cell that is read is left with the default text
Defaulted(g, cells) ==
  [r \in DOMAIN g |-> [c \in DOMAIN g[r] |-> IF <<r - 1, c - 1>> \in cells THEN <<>> ELSE g[r][c]]]

\* the grid after the cells were read: grid[row]?.[col] ?? '' writes nothing
Untouched(g, cells) == g

getCellRawValue(g, row, col) ==
  IF row < 0 \/ col < 0 \/ row >= GridRows(g) \/ col >= GridCols(g)
  THEN ERROR_REF
  ELSE Cell(g, row, col)

(* -------------------------- aggregate functions ------------------------ *)
OneCoord(addr) == IF ~addr.ok THEN <<>> ELSE <<[row |-> addr.row, col |-> addr.col]>>

\* the coordinates a trimmed argument resolves to: a range, a single
\* reference, or none for a literal
TrimmedArgCoords(trimmed, maxRows, maxCols) ==
  IF trimmed = <<>> THEN <<>>
  ELSE IF ":" \in Range(trimmed) THEN parseRange(trimmed, maxRows, maxCols)
  ELSE IF CELL_REF_REGEX(trimmed) THEN OneCoord(parseCellAddress(trimmed, maxRows, maxCols))
  ELSE <<>>

ArgCoords(arg, g) == TrimmedArgCoords(trim(arg), GridRows(g), GridCols(g))

\* an operand that keeps its currency decoration
OperandRaw(raw, stripped) == [counted |-> raw # <<>>, stripped |-> raw]

\* one operand: whether it adds to countNonEmpty, and its stripped text
Operand(raw, stripped) == [counted |-> raw # <<>>, stripped |-> stripped]

\* a faulty variant: the body of a formula cell is taken as its value
pushFromCoordBody(g, row, col) ==
  Operand(getCellRawValue(g, row, col),
          stripCurrencyFormatting(IF startsWith(trim(getCellRawValue(g, row, col)), "=")
                                  THEN Tail(trim(getCellRawValue(g, row, col)))
                                  ELSE getCellRawValue(g, row, col)))

pushFromCoord(g, row, col) ==
  Operand(getCellRawValue(g, row, col), stripCurrencyFormatting(getCellRawValue(g, row, col)))

CoordOperands(coords, g) ==
  [i \in 1..Len(coords) |-> pushFromCoord(g, coords[i].row, coords[i].col)]

TrimmedArgOperands(trimmed, coords, g) ==
  IF trimmed = <<>> THEN <<>>
  ELSE IF ":" \in Range(trimmed) \/ CELL_REF_REGEX(trimmed) THEN CoordOperands(coords, g)
  ELSE <<Operand(stripCurrencyFormatting(trimmed), stripCurrencyFormatting(trimmed))>>

processArg(arg, g) == TrimmedArgOperands(trim(arg), ArgCoords(arg, g), g)

RECURSIVE Operands(_, _)
Operands(args, g) ==
  IF args = <<>> THEN <<>> ELSE processArg(Head(args), g) \o Operands(Tail(args), g)

RECURSIVE SumOf(_)
SumOf(nums) == IF nums = <<>> THEN Int2Rat(0) ELSE Add(Head(nums), SumOf(Tail(nums)))

Smaller(a, b) == IF Less(b, a) THEN b ELSE a
Larger(a, b) == IF Less(a, b) THEN b ELSE a

RECURSIVE MinOf(_)
MinOf(nums) == IF Len(nums) = 1 THEN nums[1] ELSE Smaller(Head(nums), MinOf(Tail(nums)))

RECURSIVE MaxOf(_)
MaxOf(nums) == IF Len(nums) = 1 THEN nums[1] ELSE Larger(Head(nums), MaxOf(Tail(nums)))

SUM == <<"S","U","M">>
AVG == <<"A","V","G">>
MIN == <<"M","I","N">>
MAX == <<"M","A","X">>
COUNT == <<"C","O","U","N","T">>
FunctionNames == {SUM, AVG, MIN, MAX, COUNT}

\* the number a recognized function other than COUNT returns
Aggregate(upperName, numericValues) ==
  IF upperName = SUM THEN SumOf(numericValues)
  ELSE IF Len(numericValues) = 0 THEN Int2Rat(0)
  ELSE IF upperName = AVG THEN Div(SumOf(numericValues), Int2Rat(Len(numericValues)))
  ELSE IF upperName = MIN THEN MinOf(numericValues)
  ELSE MaxOf(numericValues)

\* the switch of evaluateFunction
FunctionResult(upperName, argc, numericValues, countNonEmpty) ==
  IF upperName \notin FunctionNames THEN ERROR_FUNC
  ELSE IF argc = 0 THEN ERROR_ARGS
  ELSE IF upperName = COUNT THEN NatStr(countNonEmpty)
  ELSE String(Aggregate(upperName, numericValues))

NumericValues(numericOps) == [i \in 1..Len(numericOps) |-> Number(numericOps[i].stripped)]

\* a faulty variant: the operands are counted in place of the arguments
FunctionOverOperands(upperName, argc, ops) ==
  FunctionResult(upperName, Len(ops),
                 NumericValues(SelectSeq(ops, LAMBDA o : isNumeric(o.stripped))),
                 Cardinality({ i \in DOMAIN ops : ops[i].counted }))

FunctionOver(upperName, argc, ops) ==
  FunctionResult(upperName, argc,
                 NumericValues(SelectSeq(ops, LAMBDA o : isNumeric(o.stripped))),
                 Cardinality({ i \in DOMAIN ops : ops[i].counted }))

evaluateFunction(name, args, g) ==
  FunctionOver(toUpperCase(trim(name)), Len(args), Operands(args, g))

CoordSet(coords) == { <<coords[i].row, coords[i].col>> : i \in DOMAIN coords }

\* the cells getCellRawValue is asked for while the arguments are processed
RECURSIVE FunctionReads(_, _)
FunctionReads(args, g) ==
  IF args = <<>> THEN {}
  ELSE CoordSet(ArgCoords(Head(args), g)) \cup FunctionReads(Tail(args), g)

(* ------------------------------ tokenizer ------------------------------ *)
\* the while loop of evaluateFormula: ok is FALSE when a character is none
\* of white space, operator, number character or letter
RECURSIVE tokenize(_, _, _)
tokenize(src, i, tokens) ==
  IF i > Len(src) THEN [ok |-> TRUE, tokens |-> tokens]
  ELSE LET ch == src[i] IN
    IF ch \in WhiteSpace THEN tokenize(src, i + 1, tokens)
    ELSE IF ch \in OperatorChars THEN tokenize(src, i + 1, Append(tokens, <<ch>>))
    ELSE IF ch \in NumberChars
         THEN LET j == RunEnd(src, i, NumberChars)
              IN tokenize(src, j, Append(tokens, SubSeq(src, i, j - 1)))
    ELSE IF ch \in LetterChars
         THEN LET j == RunEnd(src, i, IdentChars)
              IN tokenize(src, j, Append(tokens, toUpperCase(SubSeq(src, i, j - 1))))
    ELSE [ok |-> FALSE, tokens |-> tokens]

\* formula.trim().replace(/^=/, '').trim()
exprOf(formula) ==
  LET t == trim(formula)
  IN trim(IF startsWith(t, "=") THEN Tail(t) ELSE t)

\* /^([A-Z]+)\((.*)\)$/ : upper-case name, "(", anything without a line
\* terminator, and ")" as the last character
funcMatch(expr) ==
  LET k == RunEnd(expr, 1, UpperChars)
  IN /\ k > 1
     /\ k < Len(expr)
     /\ expr[k] = "("
     /\ expr[Len(expr)] = ")"
     /\ "\n" \notin Range(SubSeq(expr, k + 1, Len(expr) - 1))

fnNameOf(expr) == SubSeq(expr, 1, RunEnd(expr, 1, UpperChars) - 1)
argStrOf(expr) == SubSeq(expr, RunEnd(expr, 1, UpperChars) + 1, Len(expr) - 1)

(* --------------------------- binary operators -------------------------- *)
AddOps == {<<"+">>, <<"-">>}
\* a faulty variant: the loop of parseTerm takes every operator
AnyOps == {<<"+">>, <<"-">>, <<"*">>, <<"/">>}
MulOps == {<<"*">>, <<"/">>}

\* a op b for the four operators (b # 0 for '/')
Calc(a, b, op) ==
  CASE op = <<"+">> -> Add(a, b)
    [] op = <<"-">> -> Sub(a, b)
    [] op = <<"*">> -> Mul(a, b)
    [] op = <<"/">> -> Div(a, b)

\* a faulty variant: no test for a zero divisor, the quotient is Infinity or NaN
applyOpUnchecked(a, b, op) ==
  IF op \notin AddOps \cup MulOps THEN ERROR
  ELSE IF op = <<"/">> /\ b = Int2Rat(0)
  THEN IF a = Int2Rat(0) THEN <<"N","a","N">> ELSE <<"I","n","f","i","n","i","t","y">>
  ELSE String(Calc(a, b, op))

\* the switch of applyOp on the numbers a and b
applyOpSwitch(a, b, op) ==
  IF op \notin AddOps \cup MulOps THEN ERROR
  ELSE IF op = <<"/">> /\ b = Int2Rat(0) THEN ERROR_DIV0
  ELSE String(Calc(a, b, op))

\* a faulty variant: the numeric test comes before the sentinel tests
applyOpNumericFirst(left, right, op) ==
  IF ~isNumeric(left) \/ ~isNumeric(right) THEN ERROR_VALUE
  ELSE IF isErrorValue(left) THEN left
  ELSE IF isErrorValue(right) THEN right
  ELSE applyOpSwitch(Number(left), Number(right), op)

applyOp(left, right, op) ==
  IF isErrorValue(left) THEN left
  ELSE IF isErrorValue(right) THEN right
  ELSE IF ~isNumeric(left) \/ ~isNumeric(right) THEN ERROR_VALUE
  ELSE applyOpSwitch(Number(left), Number(right), op)

\* the value parseUnary returns for operator op applied to v
applyUnary(op, v) ==
  IF ~isNumeric(v) THEN ERROR_VALUE ELSE String(WithSign(op = <<"-">>, Number(v)))

(* ------------------------- evaluation context -------------------------- *)
\* a faulty variant: the key leaves the column out
makeKeyRow(row, col) == NatStr(row)
makeKey(row, col) == NatStr(row) \o <<":">> \o NatStr(col)

\* faulty variants: the cycle test never fires; the key is never deleted
visitingNever(vis, key) == FALSE
visitingKeep(vis, key) == vis

\* context.visiting.has(key), .add(key), .delete(key)
visitingHas(vis, key) == key \in vis
visitingAdd(vis, key) == vis \cup {key}
visitingDelete(vis, key) == vis \ {key}

(* ------------------------------- state --------------------------------- *)
VARIABLES
  grid,       \* the grid passed to evaluateFormula (spreadsheetState)
  stack,      \* evaluateFormula frames on the call stack, outermost first
  visiting,   \* context.visiting
  ctrl,       \* what the innermost frame does next
  val,        \* the value a parse function or a frame has just returned
  result,     \* the value of the last finished top-level call
  reads,      \* cells getCellRawValue was asked for since the top-level call
  visits,     \* per cell: the values its finished frames returned, and how many
  lastOp,     \* the last applyOp call: its operands, operator and value
  lastExit,   \* the frame that returned last, and the path it left by
  lastCall,   \* the last call of evaluateFunction, parseRange or getCellLabel
  steps,      \* steps taken since the top-level call
  \* the state of the Spreadsheet component (src/src/components/RowLabel.tsx)
  spreadsheetState,       \* the raw text of every cell
  selectedCell,           \* {row, col} of the selected cell
  editingCell,            \* {row, col} of the cell in edit mode, or null
  editValue,              \* the text of the input of the cell in edit mode
  isCommitting,           \* set by a commit until its setTimeout(0) has run
  burnRateActive,
  burnRateOrigin,         \* {row, col} the animation started at, or null
  burnRateWave,
  burningCells,           \* the set of keys `${r}-${c}` of the burning cells
  burnRateOriginalValue,  \* the text the origin held, or null
  lastEvent               \* the handler that changed the state last

engineVars ==
  <<grid, stack, visiting, ctrl, val, result, reads, visits, lastOp, lastExit, lastCall, steps>>
uiVars ==
  <<spreadsheetState, selectedCell, editingCell, editValue, isCommitting, burnRateActive,
    burnRateOrigin, burnRateWave, burningCells, burnRateOriginalValue, lastEvent>>
vars == <<engineVars, uiVars>>

Cells == (0..(NumRows - 1)) \X (0..(NumCols - 1))
\* The frames the call stack has room for: a call beyond it ends the
\* evaluation with a RangeError (ctrl = "overflow").  The room is taken just
\* above the depth DepthBound allows, which is never exceeded.
DepthCap == NumRows * NumCols + 2

Tick == steps' = steps + 1 /\ UNCHANGED uiVars

Undefined == <<>>
NoOp == [left |-> <<>>, right |-> <<>>, op |-> <<>>, out |-> <<>>]
NoExit == [path |-> "none", row |-> 0, col |-> 0, formula |-> <<>>,
           tokens |-> <<>>, pos |-> 0, depth |-> 0]
NoCall == [fn |-> "none"]
\* evaluateFunction(name, args, grid) has returned out
FunctionCall(name, args, g, out) ==
  [fn |-> "evaluateFunction", name |-> name, args |-> args, grid |-> g, out |-> out]
NoVisits == [c \in Cells |-> [vals |-> {}, n |-> 0]]

Top == stack[Len(stack)]
peek(f) == IF f.pos < Len(f.tokens) THEN f.tokens[f.pos + 1] ELSE Undefined
Kont(kind, left, op) == [kind |-> kind, left |-> left, op |-> op]
TopKont == Top.konts[Len(Top.konts)]

Frame(row, col, formula) ==
  [row |-> row, col |-> col, formula |-> formula, tokens |-> <<>>, pos |-> 0, konts |-> <<>>]

SetTop(f) == [stack EXCEPT ![Len(stack)] = f]
PopKont(f) == [f EXCEPT !.konts = SubSeq(f.konts, 1, Len(f.konts) - 1)]
PushKont(f, k) == [f EXCEPT !.konts = Append(f.konts, k)]
Consume(f) == [f EXCEPT !.pos = f.pos + 1]

\* the innermost frame returns v by the given path
FrameReturn(v, path) ==
  /\ stack' = SubSeq(stack, 1, Len(stack) - 1)
  /\ val' = v
  /\ ctrl' = IF Len(stack) = 1 THEN "done" ELSE "return"
  /\ result' = IF Len(stack) = 1 THEN v ELSE result
  /\ visits' = IF <<Top.row, Top.col>> \in Cells
               THEN [visits EXCEPT ![<<Top.row, Top.col>>] =
                       [vals |-> @.vals \cup {v}, n |-> @.n + 1]]
               ELSE visits
  /\ lastExit' = [path |-> path, row |-> Top.row, col |-> Top.col, formula |-> Top.formula,
                  tokens |-> Top.tokens, pos |-> Top.pos, depth |-> Len(stack)]

isFormula(raw) == startsWith(trim(raw), "=")

(* ------------------------------ actions -------------------------------- *)
\* The display layer calls evaluateFormula(trimmed, g, row, col) for a cell
\* of the grid g whose trimmed text starts with '=' (computedGrid); no context
\* is passed, so the call makes a new one with an empty visiting set.
evaluateFormula(g, row, col) ==
  /\ isFormula(Cell(g, row, col))
  /\ grid' = g
  /\ stack' = <<Frame(row, col, trim(Cell(g, row, col)))>>
  /\ visiting' = {}
  /\ ctrl' = "enter"
  /\ UNCHANGED <<val, result, reads, visits, lastOp, lastExit, lastCall, steps>>
  /\ UNCHANGED uiVars

\* key = makeKey(row, col); if visiting.has(key) return '#CYCLE'; visiting.add(key)
evaluateFormulaEnter ==
  /\ ctrl = "enter"
  /\ Tick
  /\ LET key == makeKey(Top.row, Top.col) IN
       IF visitingHas(visiting, key)
       THEN /\ FrameReturn(CYCLE, "cycle")
            /\ UNCHANGED visiting
       ELSE /\ visiting' = visitingAdd(visiting, key)
            /\ ctrl' = "body"
            /\ UNCHANGED <<stack, val, result, visits, lastExit>>
  /\ UNCHANGED <<grid, reads, lastCall, lastOp>>

\* visiting.delete(key) and return v
ExitFrame(v, path) ==
  /\ FrameReturn(v, path)
  /\ visiting' = visitingDelete(visiting, makeKey(Top.row, Top.col))

\* const args = argStr.split(','); evaluateFunction(fnName, args, grid)
FunctionExit(fnName, args) ==
  /\ ExitFrame(evaluateFunction(fnName, args, grid), "function")
  /\ reads' = reads \cup FunctionReads(args, grid)
  /\ lastCall' = FunctionCall(fnName, args, grid, val')

\* the tokenizer loop has ended: by an unexpected character or with tokens
Tokenized(tk) ==
  IF ~tk.ok
  THEN /\ ExitFrame(ERROR, "tokenizer")
       /\ UNCHANGED <<reads, lastCall>>
  ELSE /\ stack' = SetTop([Top EXCEPT !.tokens = tk.tokens, !.pos = 0])
       /\ ctrl' = "parseExpression"
       /\ UNCHANGED <<visiting, val, result, reads, lastCall, visits, lastExit>>

Body(expr) ==
  IF expr = <<>>
  THEN /\ ExitFrame(<<>>, "empty")
       /\ UNCHANGED <<reads, lastCall>>
  ELSE IF toUpperCase(expr) = BURNRATE
  THEN /\ ExitFrame(<<>>, "burnrate")
       /\ UNCHANGED <<reads, lastCall>>
  ELSE IF funcMatch(expr)
  THEN FunctionExit(fnNameOf(expr), split(argStrOf(expr), ","))
  ELSE Tokenized(tokenize(expr, 1, <<>>))

\* from the trim of the formula to the end of the tokenizer loop
evaluateFormulaBody ==
  /\ ctrl = "body"
  /\ Tick
  /\ Body(exprOf(Top.formula))
  /\ grid' = Untouched(grid, reads')
  /\ UNCHANGED lastOp

\* let left = parseTerm()
parseExpression ==
  /\ ctrl = "parseExpression"
  /\ Tick
  /\ stack' = SetTop(PushKont(Top, Kont("expression", <<>>, <<>>)))
  /\ ctrl' = "parseTerm"
  /\ UNCHANGED <<grid, visiting, val, result, reads, lastCall, visits, lastOp, lastExit>>

\* let left = parseUnary()
parseTerm ==
  /\ ctrl = "parseTerm"
  /\ Tick
  /\ stack' = SetTop(PushKont(Top, Kont("term", <<>>, <<>>)))
  /\ ctrl' = "parseUnary"
  /\ UNCHANGED <<grid, visiting, val, result, reads, lastCall, visits, lastOp, lastExit>>

\* a sign is consumed and parseUnary calls itself, else parsePrimary
parseUnary ==
  /\ ctrl = "parseUnary"
  /\ Tick
  /\ LET t == peek(Top) IN
       IF t = <<"+">> \/ t = <<"-">>
       THEN /\ stack' = SetTop(PushKont(Consume(Top), Kont("unary", <<>>, t)))
            /\ ctrl' = "parseUnary"
       ELSE /\ ctrl' = "parsePrimary"
            /\ UNCHANGED stack
  /\ UNCHANGED <<grid, visiting, val, result, reads, lastCall, visits, lastOp, lastExit>>

\* the while loop that collects the tokens of a call up to its closing ')'
RECURSIVE CollectArgs(_, _, _, _)
CollectArgs(tokens, pos, depth, argTokens) ==
  IF pos < Len(tokens) /\ depth > 0
  THEN LET tk == tokens[pos + 1]
           d == IF tk = <<"(">> THEN depth + 1 ELSE IF tk = <<")">> THEN depth - 1 ELSE depth
       IN CollectArgs(tokens, pos + 1, d, IF d > 0 THEN Append(argTokens, tk) ELSE argTokens)
  ELSE [pos |-> pos, argTokens |-> argTokens]

\* parsePrimary returns v, having consumed the tokens before newPos
PrimaryReturn(v, newPos) ==
  /\ stack' = SetTop([Top EXCEPT !.pos = newPos])
  /\ val' = v
  /\ ctrl' = "return"

\* a faulty variant: the raw text of a formula cell is used as its value
PrimaryRefRaw(addr, raw) ==
  IF ~addr.ok
  THEN /\ PrimaryReturn(ERROR_REF, Top.pos + 1)
       /\ UNCHANGED <<reads, lastCall>>
  ELSE /\ PrimaryReturn(raw, Top.pos + 1)
       /\ reads' = reads \cup {<<addr.row, addr.col>>}
       /\ UNCHANGED lastCall

\* the reference branch once the address is known
PrimaryRef(addr, raw) ==
  IF ~addr.ok
  THEN /\ PrimaryReturn(ERROR_REF, Top.pos + 1)
       /\ UNCHANGED <<reads, lastCall>>
  ELSE IF isFormula(raw)
  THEN IF Len(stack) >= DepthCap
       THEN /\ ctrl' = "overflow"
            /\ UNCHANGED <<stack, val, reads, lastCall>>
       ELSE /\ stack' = Append(SetTop(Consume(Top)), Frame(addr.row, addr.col, raw))
            /\ ctrl' = "enter"
            /\ reads' = reads \cup {<<addr.row, addr.col>>}
            /\ UNCHANGED <<val, lastCall>>
  ELSE /\ PrimaryReturn(raw, Top.pos + 1)
       /\ reads' = reads \cup {<<addr.row, addr.col>>}
       /\ UNCHANGED lastCall

PrimaryAddr(addr) == PrimaryRef(addr, getCellRawValue(grid, addr.row, addr.col))

\* the function-call branch once the argument tokens are collected
PrimaryCall(name, args, newPos) ==
  /\ PrimaryReturn(evaluateFunction(name, args, grid), newPos)
  /\ reads' = reads \cup FunctionReads(args, grid)
  /\ lastCall' = FunctionCall(name, args, grid, val')

PrimaryCollected(name, call) == PrimaryCall(name, split(join(call.argTokens), ","), call.pos)

Primary(t) ==
  IF t = <<"(">>
  THEN /\ stack' = SetTop(PushKont(Consume(Top), Kont("paren", <<>>, <<>>)))
       /\ ctrl' = "parseExpression"
       /\ UNCHANGED <<val, reads, lastCall>>
  ELSE IF CELL_REF_REGEX(t)
  THEN PrimaryAddr(parseCellAddress(t, GridRows(grid), GridCols(grid)))
  ELSE IF t # Undefined /\ AllIn(t, UpperChars)
  THEN IF peek(Consume(Top)) # <<"(">>
       THEN /\ PrimaryReturn(ERROR, Top.pos + 1)
            /\ UNCHANGED <<reads, lastCall>>
       ELSE PrimaryCollected(t, CollectArgs(Top.tokens, Top.pos + 2, 1, <<>>))
  ELSE IF t # Undefined /\ t[1] \in NumberChars
  THEN /\ PrimaryReturn(t, Top.pos + 1)
       /\ UNCHANGED <<reads, lastCall>>
  ELSE /\ PrimaryReturn(ERROR, Top.pos)
       /\ UNCHANGED <<reads, lastCall>>

parsePrimary ==
  /\ ctrl = "parsePrimary"
  /\ Tick
  /\ Primary(peek(Top))
  /\ grid' = Untouched(grid, reads')
  /\ UNCHANGED <<visiting, result, visits, lastOp, lastExit>>

\* parsePrimary after the parenthesised expression: ')' is required
parsePrimaryClose ==
  /\ ctrl = "return"
  /\ Tick
  /\ Top.konts # <<>>
  /\ TopKont.kind = "paren"
  /\ IF peek(Top) # <<")">>
     THEN /\ stack' = SetTop(PopKont(Top))
          /\ val' = ERROR
     ELSE /\ stack' = SetTop(PopKont(Consume(Top)))
          /\ UNCHANGED val
  /\ UNCHANGED <<grid, visiting, ctrl, result, reads, lastCall, visits, lastOp, lastExit>>

\* parseUnary after its operand: the numeric test and the sign
parseUnaryApply ==
  /\ ctrl = "return"
  /\ Tick
  /\ Top.konts # <<>>
  /\ TopKont.kind = "unary"
  /\ stack' = SetTop(PopKont(Top))
  /\ val' = applyUnary(TopKont.op, val)
  /\ UNCHANGED <<grid, visiting, ctrl, result, reads, lastCall, visits, lastOp, lastExit>>

\* left is the first operand (first) or the value applyOp has just returned
Looped(kind, ops, operand, first, left) ==
  /\ lastOp' = IF first THEN lastOp
               ELSE [left |-> TopKont.left, right |-> val, op |-> TopKont.op, out |-> left]
  /\ IF peek(Top) \in ops
     THEN /\ stack' = SetTop(PushKont(PopKont(Consume(Top)), Kont(kind, left, peek(Top))))
          /\ ctrl' = operand
          /\ UNCHANGED val
     ELSE /\ stack' = SetTop(PopKont(Top))
          /\ val' = left
          /\ UNCHANGED ctrl

\* One turn of the loop of parseTerm (kind "term", operators * and /) or of
\* parseExpression (kind "expression", operators + and -): an operand has
\* been returned; apply the pending operator, then either consume the next
\* operator and ask for its right operand, or return left.
OperatorLoop(kind, ops, operand) ==
  /\ Top.konts # <<>>
  /\ TopKont.kind = kind
  /\ Looped(kind, ops, operand, TopKont.op = <<>>,
            IF TopKont.op = <<>> THEN val ELSE applyOp(TopKont.left, val, TopKont.op))
  /\ UNCHANGED <<grid, visiting, result, reads, lastCall, visits, lastExit>>

\* while (peek() === '*' || peek() === '/') in parseTerm
parseTermLoop ==
  /\ ctrl = "return"
  /\ Tick
  /\ OperatorLoop("term", MulOps, "parseUnary")

\* while (peek() === '+' || peek() === '-') in parseExpression
parseExpressionLoop ==
  /\ ctrl = "return"
  /\ Tick
  /\ OperatorLoop("expression", AddOps, "parseTerm")

\* const result = parseExpression(); visiting.delete(key); return result
evaluateFormulaReturn ==
  /\ ctrl = "return"
  /\ Tick
  /\ Top.konts = <<>>
  /\ ExitFrame(val, "parsed")
  /\ UNCHANGED <<grid, reads, lastCall, lastOp>>

(* --------------------------- explored grids ---------------------------- *)
\* Every explored grid is NumRows x NumCols; the texts below go to A1, B1,
\* A2 and B2 and every other cell holds the same filler text.
MkGrid(a1, b1, a2, b2, filler) ==
  [r \in 1..NumRows |-> [c \in 1..NumCols |->
     CASE r = 1 /\ c = 1 -> a1
       [] r = 1 /\ c = 2 -> b1
       [] r = 2 /\ c = 1 -> a2
       [] r = 2 /\ c = 2 -> b2
       [] OTHER -> filler]]

Fillers == { <<>>, <<"=","A","1">> }

\* reference chains, cycles and diamonds: any of these in each of the four cells
RefTexts ==
  { <<>>,
    <<"2">>,
    <<"=","A","1">>,
    <<"=","B","1">>,
    <<"=","A","2">>,
    <<"=","B","2">>,
    <<"=","B","1","+","A","2">> }

\* formulas for A1 that reach every path of the evaluator
MiscTexts ==
  { <<"=","1","/","0","+","A","1">>,
    <<"=","A","1","+","1">>,
    <<"=","B","1">>,
    <<"=","b","1">>,
    <<"="," ","B","1"," ">>,
    <<"=","(","B","1",")">>,
    <<"=","1",".","2",".","3">>,
    <<"=",".">>,
    <<"=","4","/","0">>,
    <<"=","1","/","0",".","0">>,
    <<"=","1","/","-","0">>,
    <<"=","1","/","B","1">>,
    <<"=","4","/","B","1","/","2">>,
    <<"=","B","1","/","A","2">>,
    <<"=","0","/","0">>,
    <<"=","Z","9","9">>,
    <<"=","C","1">>,
    <<"=","A","3">>,
    <<"=","a","3">>,
    <<"=","B","1","+","Z","9","9">>,
    <<"=","Z","9","9","+","B","1">>,
    <<"=","B","1","*","A","2">>,
    <<"=","B","1","-","A","2">>,
    <<"=","1"," ","2">>,
    <<"=","1",")">>,
    <<"=","B","1"," ","A","2">>,
    <<"=","2","*","B","1"," ","7">>,
    <<"=">>,
    <<"=","B","U","R","N","R","A","T","E","(",")">>,
    <<"=","b","u","r","n","r","a","t","e","(",")">>,
    <<"=","S","U","M","(","B","1",",","A","2",")">>,
    <<"=","S","U","M","(","A","1",":","B","2",")">>,
    <<"=","F","O","O","(","1",")">>,
    <<"=","1",",","2">>,
    <<"=","s","u","m","(","1",")">>,
    <<"=","S","U","M">>,
    <<"=","1","+","S","U","M","(","2">>,
    <<"=","1","+","C","O","U","N","T","(","B","1",")">>,
    <<"=","(","1","+","2",")","*","4">>,
    <<"=","(","1">>,
    <<"=","-","B","1">>,
    <<"=","+","B","1">>,
    <<"=","-","-","2">>,
    <<"=","A","0">>,
    <<"=","1","+">>,
    <<"=","2","*","B","1">>,
    <<"=","B","1","+","B","1">>,
    <<"=","B","1","+","A","2","+","B","1">> }

\* formulas with parentheses and function calls
CallTexts ==
  { <<"=","(","1","+","2">>,
    <<"=",")">>,
    <<"=","2","*","(","B","1">>,
    <<"=","S","U","M","(","1">>,
    <<"=","s","u","m","(","1",",","2",")">>,
    <<"=","S","U","M","(","1",",","2",")">>,
    <<"=","s","u","m","(","B","1",":","A","2",")">>,
    <<"=","S","U","M","(","B","1",":","A","2",")">>,
    <<"=","S","u","m","(","B","1",")">>,
    <<"=","S","U","M","(","1",")","+","S","U","M","(","2",")">>,
    <<"=","S","U","M","(","1",")","+","(","2",")">>,
    <<"=","1","+","S","U","M","(","2",",","3",")">>,
    <<"=","S","U","M","(","B","1",":","A","2",")","+","1">>,
    <<"=","1","+","S","U","M","(","2",")">>,
    <<"=","A","V","G","(","B","1",",","A","2",")">>,
    <<"=","M","I","N","(","B","1",",","A","2",")">>,
    <<"=","M","A","X","(","B","1",",","A","2",")">>,
    <<"=","C","O","U","N","T","(","B","1",":","A","2",")">>,
    <<"=","C","O","U","N","T","(","$",")">>,
    <<"=","S","U","M","(",")">> }

\* what B1 and A2 hold next to them
MiscB1 ==
  { <<>>,
    <<"0">>,
    <<" ","0"," ">>,
    <<"x">>,
    <<"=","1","-","1">>,
    <<"#","N","/","A">>,
    <<"2">>,
    <<"=","A","1">>,
    <<"=","A","2">>,
    <<"$","1",",","0","0","0">>,
    <<"#","C","Y","C","L","E">> }

MiscA2 ==
  { <<"2">>,
    <<"=","B","1">>,
    <<"0">> }

\* numeric literals of the arithmetic formulas (their quotients are dyadic)
LitTexts ==
  { <<"0">>,
    <<"1">>,
    <<"2">>,
    <<"4">>,
    <<".","5">>,
    <<"1","6">> }

\* formulas that use B1, the cell itself or a cell beyond the grid
UseTexts ==
  { <<"=","S","U","M","(","A","1",")">>,
    <<"=","C","O","U","N","T","(","A","1",")">>,
    <<"=","S","U","M","(","B","1",")">>,
    <<"=","C","O","U","N","T","(","B","1",")">>,
    <<"=","1","+","S","U","M","(","B","1",")">>,
    <<"=","C","O","U","N","T","(","Z","9",")">>,
    <<"=","C","O","U","N","T","(","B","1",":","Z","9",")">>,
    <<"=","S","U","M","(","Z","9",")">>,
    <<"=","1","+","C","O","U","N","T","(","Z","9",")">>,
    <<"=","C","O","U","N","T","(",")">>,
    <<"=","1","+","S","U","M","(",")">>,
    <<"=","-","B","1">>,
    <<"=","+","B","1">>,
    <<"=","-","-","B","1">>,
    <<"=","B","1","+","1">>,
    <<"=","1","+","B","1">>,
    <<"=","-","(","B","1",")">> }

\* what B1 holds next to them
UseB1 ==
  { <<>>,
    <<"2">>,
    <<"=","2">>,
    <<"$","1",",","0","0","0">>,
    <<"=","B","1">>,
    <<"=","A","1">>,
    <<"=","Z","9">>,
    <<"=","1","/","0">>,
    <<"=","x">>,
    <<"#","E","R","R","O","R",":","A","R","G","S">> }

Eq == <<"=">>
A_plus_BC(a, b, c) == Eq \o a \o <<"+">> \o b \o <<"*">> \o c
AB_times_C(a, b, c) == Eq \o <<"(">> \o a \o <<"+">> \o b \o <<")">> \o <<"*">> \o c
A_minus_B_minus_C(a, b, c) == Eq \o a \o <<"-">> \o b \o <<"-">> \o c
A_div_B_div_C(a, b, c) == Eq \o a \o <<"/">> \o b \o <<"/">> \o c
NegA_times_B(a, b) == Eq \o <<"-">> \o a \o <<"*">> \o b
A_times_NegB(a, b) == Eq \o a \o <<"*">> \o <<"-">> \o b
NegA_div_B(a, b) == Eq \o <<"-">> \o a \o <<"/">> \o b
A_div_NegB(a, b) == Eq \o a \o <<"/">> \o <<"-">> \o b

ArithTexts ==
  UNION { { A_plus_BC(a, b, c), AB_times_C(a, b, c), A_minus_B_minus_C(a, b, c),
            A_div_B_div_C(a, b, c), NegA_times_B(a, b), A_times_NegB(a, b),
            NegA_div_B(a, b), A_div_NegB(a, b) } : a \in LitTexts, b \in LitTexts, c \in LitTexts }

Grids ==
  { MkGrid(a1, b1, a2, b2, f) :
      a1 \in RefTexts, b1 \in RefTexts, a2 \in RefTexts, b2 \in RefTexts, f \in Fillers }
  \cup { MkGrid(a1, b1, a2, <<>>, f) :
      a1 \in MiscTexts \cup CallTexts, b1 \in MiscB1, a2 \in MiscA2, f \in Fillers }
  \cup { MkGrid(a1, <<>>, <<>>, <<>>, f) : a1 \in ArithTexts, f \in Fillers }
  \cup { MkGrid(a1, b1, <<>>, <<>>, f) : a1 \in UseTexts, b1 \in UseB1, f \in Fillers }

\* a top-level call on one of the explored grids
Evaluate ==
  /\ ctrl = "idle"
  /\ \E g \in Grids, c \in Cells : evaluateFormula(g, c[1], c[2])

\* a direct call of the exported evaluateFunction
CallNames ==
  { <<"S","U","M">>,
    <<"A","V","G">>,
    <<"M","I","N">>,
    <<"M","A","X">>,
    <<"C","O","U","N","T">>,
    <<"F","O","O">>,
    <<"s","u","m">>,
    <<" ","A","v","g"," ">>,
    <<>> }

CallArgs ==
  { <<>>,
    <<<<>>>>,
    <<<<" ">>>>,
    <<<<"B","1">>>>,
    <<<<"B","1">>, <<"A","2">>>>,
    <<<<"A","2",":","B","2">>>>,
    <<<<"B","2",":","A","1">>>>,
    <<<<" ","b","1"," ">>, <<"4">>>>,
    <<<<"1">>, <<"2">>>>,
    <<<<"B","1">>, <<>>, <<"x">>>>,
    <<<<"Z","9">>>>,
    <<<<"B","1",":","Z","9">>>>,
    <<<<"$">>>>,
    <<<<"$","1">>, <<"0","0","0">>>>,
    <<<<"1","e","3","0","8">>, <<"1","e","3","0","8">>>>,
    <<<<"-","1","e","3","0","8">>, <<"B","1">>>>,
    <<<<"Z","9">>, <<"B","1">>>> }

\* the grids of the direct calls: A1 and B2 hold no number
DataGrids ==
  { MkGrid(a1, b1, a2, b2, f) :
      a1 \in { <<>>, <<"x">> },
      b1 \in { <<>>, <<"x">>, <<"2">>, <<"-","4">>, <<"$","1",",","0","0","0">>, <<" ">> },
      a2 \in { <<>>, <<"8">>, <<"=","B","1">>, <<"=","2">> },
      b2 \in { <<>>, <<"x">> },
      f \in Fillers }

CallEvaluateFunction ==
  /\ ctrl = "idle"
  /\ \E name \in CallNames, args \in CallArgs, g \in DataGrids :
       /\ lastCall' = FunctionCall(name, args, g, evaluateFunction(name, args, g))
       /\ reads' = FunctionReads(args, g)
       /\ grid' = Untouched(g, reads')
  /\ ctrl' = "called"
  /\ UNCHANGED <<stack, visiting, val, result, visits, lastOp, lastExit, steps>>
  /\ UNCHANGED uiVars

\* a label is formatted for (row, col) and parsed under bounds that hold it
CallParseCellAddress ==
  /\ ctrl = "idle"
  /\ \E row \in 0..MaxRow, col \in 0..MaxColumn, maxRows \in 1..(MaxRow + 2), maxCols \in {1, 2} :
       /\ maxRows > row
       /\ lastCall' = [fn |-> "parseCellAddress", row |-> row, col |-> col,
                       column |-> getColumnLabel(col), label |-> getCellLabel(row, col),
                       out |-> parseCellAddress(getCellLabel(row, col), maxRows, col + maxCols)]
  /\ ctrl' = "called"
  /\ UNCHANGED <<grid, stack, visiting, val, result, reads, visits, lastOp, lastExit, steps>>
  /\ UNCHANGED uiVars

\* the endpoints of the ranges: a text and the cell it names (<<-1, -1>> if
\* the text is no label)
Endpoints ==
  { [text |-> getCellLabel(r, c), cell |-> <<r, c>>] : r \in 0..RangeRows, c \in 0..RangeCols }
  \cup { [text |-> <<" ","b","2"," ">>, cell |-> <<1, 1>>], [text |-> <<"a","1">>, cell |-> <<0, 0>>] }
  \cup { [text |-> m, cell |-> <<-1, -1>>] :
           m \in { <<>>, <<"A","0">>, <<"1","A">>, <<"A">>, <<"A","0","1">>, <<"A","1","B">>, <<"$","A","$","1">> } }

\* a range is expanded from start to end and from end to start
CallParseRange ==
  /\ ctrl = "idle"
  /\ \E start \in Endpoints, end \in Endpoints, maxRows \in 1..RangeRows, maxCols \in 1..RangeCols :
       lastCall' = [fn |-> "parseRange", start |-> start, end |-> end,
                    maxRows |-> maxRows, maxCols |-> maxCols,
                    out |-> parseRange(start.text \o <<":">> \o end.text, maxRows, maxCols),
                    back |-> parseRange(end.text \o <<":">> \o start.text, maxRows, maxCols)]
  /\ ctrl' = "called"
  /\ UNCHANGED <<grid, stack, visiting, val, result, reads, visits, lastOp, lastExit, steps>>
  /\ UNCHANGED uiVars

Step ==
  \/ evaluateFormulaEnter
  \/ evaluateFormulaBody
  \/ parseExpression
  \/ parseTerm
  \/ parseUnary
  \/ parsePrimary
  \/ parsePrimaryClose
  \/ parseUnaryApply
  \/ parseTermLoop
  \/ parseExpressionLoop
  \/ evaluateFormulaReturn

Next ==
  \/ Evaluate
  \/ Step
  \/ CallEvaluateFunction
  \/ CallParseCellAddress
  \/ CallParseRange

(* ------------------------ Spreadsheet component ------------------------ *)
\* The state hooks of Spreadsheet (src/src/components/RowLabel.tsx).  A
\* handler runs against the values of the render it was created in (its
\* closure) and queues updates; React applies the queue when the handler has
\* returned, renders, and runs the effects whose dependencies changed.
\* A handler, the render and the effects that follow it are one step.
Rows == 0..(NumRows - 1)
Cols == 0..(NumCols - 1)
null == [row |-> -1, col |-> -1]
\* the null of a state that otherwise holds a text
nullValue == <<"null">>
Coord(row, col) == [row |-> row, col |-> col]
Coords == { Coord(r, c) : r \in Rows, c \in Cols }

\* _.times(NUM_ROWS, () => _.times(NUM_COLUMNS, _.constant('')))
InitialSheet == [r \in Rows |-> [c \in Cols |-> <<>>]]

\* the state one render shows, as a record of the hooks' values
State ==
  [ spreadsheetState |-> spreadsheetState,
    selectedCell |-> selectedCell,
    editingCell |-> editingCell,
    editValue |-> editValue,
    isCommitting |-> isCommitting,
    burnRateActive |-> burnRateActive,
    burnRateOrigin |-> burnRateOrigin,
    burnRateWave |-> burnRateWave,
    burningCells |-> burningCells,
    burnRateOriginalValue |-> burnRateOriginalValue ]

\* the handler that ran; for a key event the key, the Shift key and the
\* cell that was selected when the key went down.  A handler that leaves
\* every hook as it was causes no render and is not recorded.
Event(name) == [name |-> name, key |-> "", shiftKey |-> FALSE, from |-> null]
KeyEvent(key, shiftKey) ==
  [name |-> "keydown", key |-> key, shiftKey |-> shiftKey, from |-> selectedCell]
NoEvent == Event("none")

\* the sheet as constructed: every cell holds the empty text
EmptyGrid == [r \in 1..NumRows |-> [c \in 1..NumCols |-> <<>>]]

Init ==
  /\ grid = EmptyGrid
  /\ stack = <<>>
  /\ visiting = {}
  /\ ctrl = "idle"
  /\ val = <<>>
  /\ result = <<>>
  /\ reads = {}
  /\ visits = NoVisits
  /\ lastOp = NoOp
  /\ lastExit = NoExit
  /\ lastCall = NoCall
  /\ steps = 0
  /\ spreadsheetState = InitialSheet
  /\ selectedCell = Coord(0, 0)
  /\ editingCell = null
  /\ editValue = <<>>
  /\ isCommitting = FALSE
  /\ burnRateActive = FALSE
  /\ burnRateOrigin = null
  /\ burnRateWave = 0
  /\ burningCells = {}
  /\ burnRateOriginalValue = nullValue
  /\ lastEvent = NoEvent

Spec == Init /\ [][Next]_vars

(* ----------------------- Spreadsheet: handlers ------------------------- *)
BurnRateFormula == <<"=">> \o BURNRATE

\* commitEdit, created in the render c, queues its updates on s
commitEdit(c, s) ==
  IF c.editingCell # null /\ ~c.isCommitting
  THEN LET row == c.editingCell.row
           col == c.editingCell.col
           trimmed == trim(c.editValue)
           s1 == [s EXCEPT !.isCommitting = TRUE]
           s2 == IF toUpperCase(trimmed) = BurnRateFormula
                 THEN IF ~c.burnRateActive /\ c.burnRateOrigin = null
                      THEN [s1 EXCEPT !.burnRateActive = TRUE,
                                      !.burnRateOrigin = Coord(row, col),
                                      !.burnRateWave = 0,
                                      !.burnRateOriginalValue = c.spreadsheetState[row][col]]
                      ELSE s1
                 ELSE [s1 EXCEPT !.spreadsheetState[row][col] = c.editValue]
       IN [s2 EXCEPT !.burnRateWave = 0, !.editingCell = null]
  ELSE s

\* Math.max(0, Math.min(max, value))
clampWrap(max, value) == value % (max + 1)
clamp(max, value) == Max2(0, Min2(max, value))

\* move(dr, dc) of handleKeyDown: commitEdit(), then setSelectedCell(prev => ...)
move(c, s, dr, dc) ==
  LET s1 == commitEdit(c, s) IN
    [s1 EXCEPT !.selectedCell = Coord(clamp(NumRows - 1, s1.selectedCell.row + dr),
                                      clamp(NumCols - 1, s1.selectedCell.col + dc))]

\* `${r}-${c}`
burnKey(r, c) == NatStr(r) \o <<"-">> \o NatStr(c)
\* the cells the loops of the burning effect visit
BurnArea(origin) == { Coord(r, c) : r \in origin.row..(NumRows - 1), c \in origin.col..(NumCols - 1) }
distance(origin, cell) == cell.row - origin.row + (cell.col - origin.col)
SetMax(S) == CHOOSE m \in S : \A n \in S : n <= m
maxDistance(origin) == SetMax({0} \cup { distance(origin, cell) : cell \in BurnArea(origin) })

\* the effect on [burnRateActive, burnRateOrigin, burnRateWave, burnRateOriginalValue]
burningEffect(s) ==
  IF ~s.burnRateActive \/ s.burnRateOrigin = null
  THEN [s EXCEPT !.burningCells = {}]
  ELSE LET origin == s.burnRateOrigin
           next == { burnKey(cell.row, cell.col) :
                       cell \in { b \in BurnArea(origin) : /\ distance(origin, b) >= 0
                                                         /\ distance(origin, b) <= s.burnRateWave } }
       IN IF s.burnRateWave > maxDistance(origin)
          THEN [s EXCEPT !.burnRateActive = FALSE,
                         !.burnRateWave = 0,
                         !.burningCells = {},
                         !.burnRateOrigin = null,
                         !.burnRateOriginalValue = nullValue]
          ELSE [s EXCEPT !.burningCells = next]

\* the updates a handler queued are applied, the component renders and its
\* effects run; the formula engine is not part of the component's state
Render(s, event) ==
  \E t \in {burningEffect(s)} :
    /\ spreadsheetState' = t.spreadsheetState
    /\ selectedCell' = t.selectedCell
    /\ editingCell' = t.editingCell
    /\ editValue' = t.editValue
    /\ isCommitting' = t.isCommitting
    /\ burnRateActive' = t.burnRateActive
    /\ burnRateOrigin' = t.burnRateOrigin
    /\ burnRateWave' = t.burnRateWave
    /\ burningCells' = t.burningCells
    /\ burnRateOriginalValue' = t.burnRateOriginalValue
    /\ lastEvent' = IF t = State THEN lastEvent ELSE event
    /\ UNCHANGED engineVars

\* e.key.length: "$" is a printable character, the other keys are named;
\* no Meta or Control key is held
PrintableKeys == {"$"}
keyLength(key) == IF key \in PrintableKeys THEN 1 ELSE 2

\* Cell.handleKeyDown of the input of the cell in edit mode
CellKeyDown(c, s, key) ==
  IF c.editingCell # null /\ key = "Escape" THEN [s EXCEPT !.editingCell = null] ELSE s

\* Spreadsheet.handleKeyDown
handleKeyDown(c, s, key, shiftKey) ==
  IF c.isCommitting THEN s
  ELSE IF key = "Escape" /\ c.burnRateActive
  THEN [s EXCEPT !.burnRateActive = FALSE,
                 !.burnRateOrigin = null,
                 !.burnRateOriginalValue = nullValue,
                 !.burningCells = {}]
  ELSE IF c.editingCell # null
  THEN CASE key = "Enter" ->
              IF startsWith(trim(c.editValue), "=")
              THEN commitEdit(c, s)
              ELSE move(c, s, IF shiftKey THEN -1 ELSE 1, 0)
         [] key = "Tab" -> move(c, s, 0, IF shiftKey THEN -1 ELSE 1)
         [] key = "Escape" -> [s EXCEPT !.editingCell = null]
         [] key = "ArrowUp" -> move(c, s, -1, 0)
         [] key = "ArrowDown" -> move(c, s, 1, 0)
         [] OTHER -> s
  ELSE CASE key = "ArrowUp" -> move(c, s, -1, 0)
         [] key = "ArrowDown" -> move(c, s, 1, 0)
         [] key = "ArrowLeft" -> move(c, s, 0, -1)
         [] key = "ArrowRight" -> move(c, s, 0, 1)
         [] key = "Tab" -> move(c, s, 0, IF shiftKey THEN -1 ELSE 1)
         [] key = "Enter" ->
              [s EXCEPT !.editingCell = c.selectedCell,
                        !.editValue = c.spreadsheetState[c.selectedCell.row][c.selectedCell.col]]
         [] OTHER ->
              IF keyLength(key) = 1
              THEN [s EXCEPT !.editingCell = c.selectedCell, !.editValue = <<key>>]
              ELSE s

\* the keys pressed
Keys == {"ArrowUp", "ArrowDown", "ArrowLeft", "ArrowRight", "Tab", "Enter", "Escape"} \cup PrintableKeys
ShiftKeys == {"Tab", "Enter"}
\* the texts typed into the input, and the texts pasted into it; the pasted
\* text is the text the printable key types, so that a cell holds one of
\* two texts
EditTexts == { <<"=","B","U","R","N","R","A","T","E","(",")">> }
PasteTexts == { <<"$">> }

\* a key goes down: in the input of the cell in edit mode first, if there is
\* one, and then, as the event bubbles, in the grid
KeyDown ==
  \E key \in Keys, shiftKey \in BOOLEAN :
    /\ shiftKey => key \in ShiftKeys
    /\ Render(handleKeyDown(State, CellKeyDown(State, State, key), key, shiftKey),
              KeyEvent(key, shiftKey))

\* onSelect of the cell (rowIdx, colIdx): a click
Select ==
  \E cell \in Coords :
    /\ Render(IF editingCell # null
              THEN IF editingCell = cell
                   THEN State
                   ELSE [commitEdit(State, State) EXCEPT !.selectedCell = cell]
              ELSE [State EXCEPT !.selectedCell = cell],
              Event("select"))

\* onStartEdit of the cell (rowIdx, colIdx): a double click, which the
\* browser sends after the clicks on the same cell
StartEdit ==
  \E cell \in Coords :
    /\ selectedCell = cell \/ editingCell = cell
    /\ Render([(IF editingCell # null THEN commitEdit(State, State) ELSE State)
                 EXCEPT !.editingCell = cell,
                        !.editValue = spreadsheetState[cell.row][cell.col]],
              Event("startEdit"))

\* onEdit of the input: the text of the input changes
Edit ==
  /\ editingCell # null
  /\ \E text \in EditTexts :
       Render([State EXCEPT !.editValue = text], Event("edit"))

\* onCommit of the input: it loses the focus
Blur ==
  /\ editingCell # null
  /\ Render(commitEdit(State, State), Event("blur"))

\* onPaste of the input: setEditValue(pasted); commitEdit()
Paste ==
  /\ editingCell # null
  /\ \E pasted \in PasteTexts :
       Render(commitEdit(State, [State EXCEPT !.editValue = pasted]),
              Event("paste"))

\* the callback of setTimeout(() => setIsCommitting(false), 0); one is
\* pending exactly while isCommitting is set
ResetCommitting ==
  /\ isCommitting
  /\ Render([State EXCEPT !.isCommitting = FALSE], Event("timeout"))

\* the callback of setInterval(..., 250), which runs while the animation does
IntervalTick ==
  /\ burnRateActive
  /\ burnRateOrigin # null
  /\ Render([State EXCEPT !.burnRateWave = @ + 1], Event("interval"))

UINext ==
  \/ KeyDown
  \/ Select
  \/ StartEdit
  \/ Edit
  \/ Blur
  \/ Paste
  \/ ResetCommitting
  \/ IntervalTick

UISpec == Init /\ [][UINext]_vars
\* the two timers run when they are due
UIFairSpec == UISpec /\ WF_vars(ResetCommitting) /\ WF_vars(IntervalTick)

(* ------------------------- dependency graph ---------------------------- *)
NumCells == NumRows * NumCols

\* the formula of the top-level call in progress, or of the last one
TopFormula == IF stack # <<>> THEN stack[1].formula ELSE lastExit.formula
TopCell == IF stack # <<>> THEN <<stack[1].row, stack[1].col>> ELSE <<lastExit.row, lastExit.col>>
Running == ctrl \notin {"idle", "done", "called", "overflow"}
Done == ctrl = "done"

\* the tokens of a formula that is evaluated as an arithmetic expression
ExprTokens(raw) ==
  IF isFormula(raw) /\ exprOf(raw) # <<>> /\ toUpperCase(exprOf(raw)) # BURNRATE
     /\ ~funcMatch(exprOf(raw)) /\ tokenize(exprOf(raw), 1, <<>>).ok
  THEN tokenize(exprOf(raw), 1, <<>>).tokens
  ELSE <<>>

CellOf(addr) == IF addr.ok THEN {<<addr.row, addr.col>>} ELSE {}

\* the cells named by reference tokens outside the parentheses of a call
RECURSIVE PlainRefs(_, _, _)
PlainRefs(tokens, i, g) ==
  IF i > Len(tokens) THEN {}
  ELSE IF CELL_REF_REGEX(tokens[i])
  THEN CellOf(parseCellAddress(tokens[i], GridRows(g), GridCols(g))) \cup PlainRefs(tokens, i + 1, g)
  ELSE IF AllIn(tokens[i], UpperChars) /\ i < Len(tokens) /\ tokens[i + 1] = <<"(">>
  THEN PlainRefs(tokens, CollectArgs(tokens, i + 1, 1, <<>>).pos + 1, g)
  ELSE PlainRefs(tokens, i + 1, g)

Deps(g, c) == PlainRefs(ExprTokens(Cell(g, c[1], c[2])), 1, g)

\* the cells reached from the set cs in 1..k steps along the edges
RECURSIVE Reach(_, _, _)
Reach(edges, cs, k) ==
  IF k = 0 \/ cs = {} THEN {}
  ELSE LET to == { e[2] : e \in { e \in edges : e[1] \in cs } }
       IN to \cup Reach(edges, to, k - 1)

CyclicCells(edges) == { c \in Cells : c \in Reach(edges, {c}, NumCells) }

RefEdges(g) == UNION { { <<c, d>> : d \in Deps(g, c) } : c \in Cells }
OnCycle(g, c) == c \in CyclicCells(RefEdges(g))
Acyclic(g) == CyclicCells(RefEdges(g)) = {}

\* the cell a formula refers to when its body is one reference token
BareTarget(g, c) ==
  LET tokens == ExprTokens(Cell(g, c[1], c[2]))
  IN IF Len(tokens) = 1 /\ CELL_REF_REGEX(tokens[1])
     THEN CellOf(parseCellAddress(tokens[1], GridRows(g), GridCols(g)))
     ELSE {}

BareEdges(g) == UNION { { <<c, d>> : d \in BareTarget(g, c) } : c \in Cells }
OnBareCycle(g, c) == c \in CyclicCells(BareEdges(g))

RECURSIVE Power(_, _)
Power(b, k) == IF k = 0 THEN 1 ELSE b * Power(b, k - 1)

\* the length of the longest cell text of the grid
Longest(lens) == CHOOSE m \in lens : \A k \in lens : k <= m
MaxLen(g) == Longest({ Len(Cell(g, c[1], c[2])) : c \in Cells })

\* Steps a top-level call can take.  A formula of n characters has at most n
\* tokens, at most n \div 3 of them references (a reference is two
\* characters or more, and a character separates it from the next).  A
\* frame calls evaluateFormula once per reference token at most and frames
\* nest DepthBound deep at most, which bounds the frames; a frame takes the
\* 3 steps of its entry, body and return and at most 6 steps (the calls and
\* the returns of parsePrimary, parseUnary, parseTerm) per token.
StepBound(g) == Power(1 + MaxLen(g) \div 3, NumCells) * (6 * MaxLen(g) + 3)

\* a step of the call in progress can be taken: the innermost frame is at a
\* statement of evaluateFormula or has a value to hand to the parser
\* function that waits for it
CanStep ==
  /\ stack # <<>>
  /\ \/ ctrl \in {"enter", "body", "parseExpression", "parseTerm", "parseUnary", "parsePrimary"}
     \/ /\ ctrl = "return"
        /\ Top.konts # <<>> => TopKont.kind \in {"expression", "term", "unary", "paren"}

\* C2: a top-level evaluateFormula call returns: while it has not returned
\* it can take a step, it takes a bounded number of steps, and it never
\* overflows the call stack; the evaluateFormula frames on the call stack
\* never number more than the grid's cells plus one.
DepthBound == Len(stack) <= GridRows(grid) * GridCols(grid) + 1
Terminates ==
  /\ DepthBound
  /\ ctrl # "overflow"
  /\ ~Running \/ CanStep
  /\ steps <= StepBound(grid)

\* the deepest stack: a frame for every cell and the frame that finds the cycle
TerminatesWitness ==
  /\ Len(stack) = GridRows(grid) * GridCols(grid) + 1
  /\ ctrl = "enter"
  /\ Cardinality(visiting) = NumCells

\* C3: context.visiting is exactly the set of the keys of the frames that
\* have passed the cycle test and not yet returned, one key per frame; a
\* frame that returns, by whatever path, leaves the set without its key, and
\* the set is empty when the top-level call has returned.
ActiveFrames == { i \in DOMAIN stack : ~(ctrl = "enter" /\ i = Len(stack)) }
VisitingIsStack ==
  /\ visiting = { makeKey(stack[i].row, stack[i].col) : i \in ActiveFrames }
  /\ Cardinality(visiting) = Cardinality(ActiveFrames)
  /\ ~Running => (stack = <<>> /\ visiting = {})

\* a #CYCLE short-circuit has just returned into two suspended frames
VisitingIsStackWitness ==
  /\ lastExit.path = "cycle"
  /\ ctrl = "return"
  /\ Len(stack) >= 2
  /\ Cardinality(visiting) = Len(stack)

\* C4: the value a top-level evaluateFormula call returns is decimal-numeric
\* text, or starts with "#", or is the empty string.
OutputContract == Done => (isNumeric(result) \/ isErrorValue(result) \/ result = <<>>)

\* C5: on a grid whose reference graph is acyclic and where no cell's raw
\* text starts with "#", a top-level call returns with no evaluateFormula
\* frame having returned "#CYCLE", and with every frame of a cell having
\* returned the same value as the first frame of that cell.
NoSentinelText(g) == \A c \in Cells : ~isErrorValue(Cell(g, c[1], c[2]))
FalseCycle ==
  \/ result = CYCLE
  \/ \E c \in Cells : CYCLE \in visits[c].vals \/ Cardinality(visits[c].vals) > 1
NoFalseCycle == (Done /\ FalseCycle) => ~(Acyclic(grid) /\ NoSentinelText(grid))

\* a formula cell was evaluated twice or more in one call on an acyclic grid
NoFalseCycleWitness ==
  /\ Done
  /\ Acyclic(grid)
  /\ NoSentinelText(grid)
  /\ \E c \in Cells : visits[c].n >= 2
  /\ isNumeric(result)

\* the text of an exact value; a division by zero on the way is NaN here
Quot(x, y) == IF x = NaN \/ y = NaN \/ y = Int2Rat(0) THEN NaN ELSE Div(x, y)
Plus(x, y) == IF x = NaN \/ y = NaN THEN NaN ELSE Add(x, y)
Minus(x, y) == IF x = NaN \/ y = NaN THEN NaN ELSE Sub(x, y)
Times(x, y) == IF x = NaN \/ y = NaN THEN NaN ELSE Mul(x, y)
Shown(x) == IF x = NaN THEN ERROR_DIV0 ELSE String(x)
Lit(t) == UnsignedDecimal(t)

\* C6: "=a+b*c" is a+(b*c), "=(a+b)*c" is (a+b)*c, "=a-b-c" is (a-b)-c,
\* "=a/b/c" is (a/b)/c, and a unary minus applies to the operand next to it,
\* before * and /.
Precedence ==
  Done => \A a \in LitTexts, b \in LitTexts, c \in LitTexts :
    /\ TopFormula = A_plus_BC(a, b, c) => result = Shown(Plus(Lit(a), Times(Lit(b), Lit(c))))
    /\ TopFormula = AB_times_C(a, b, c) => result = Shown(Times(Plus(Lit(a), Lit(b)), Lit(c)))
    /\ TopFormula = A_minus_B_minus_C(a, b, c) => result = Shown(Minus(Minus(Lit(a), Lit(b)), Lit(c)))
    /\ TopFormula = A_div_B_div_C(a, b, c) => result = Shown(Quot(Quot(Lit(a), Lit(b)), Lit(c)))
    /\ TopFormula = NegA_times_B(a, b) => result = Shown(Times(Neg(Lit(a)), Lit(b)))
    /\ TopFormula = A_times_NegB(a, b) => result = Shown(Times(Lit(a), Neg(Lit(b))))
    /\ TopFormula = NegA_div_B(a, b) => result = Shown(Quot(Neg(Lit(a)), Lit(b)))
    /\ TopFormula = A_div_NegB(a, b) => result = Shown(Quot(Lit(a), Neg(Lit(b))))

\* "=2+4*16" has returned "66"
PrecedenceWitness ==
  /\ Done
  /\ TopFormula = A_plus_BC(<<"2">>, <<"4">>, <<"1","6">>)
  /\ result = <<"6","6">>
  /\ lastOp.op = <<"+">>

\* C7: a '/' applied to a numeric left operand and a right operand that is
\* numeric text of value zero yields "#ERROR:DIV0".
DivisionByZero ==
  ( /\ lastOp.op = <<"/">>
    /\ ~isErrorValue(lastOp.left)
    /\ isNumeric(lastOp.left)
    /\ isNumeric(lastOp.right)
    /\ Number(lastOp.right) = Int2Rat(0) )
  => lastOp.out = ERROR_DIV0

\* a number was divided by the value of B1, a formula that evaluates to 0
DivisionByZeroWitness ==
  /\ lastOp.op = <<"/">>
  /\ isNumeric(lastOp.left)
  /\ lastOp.right = <<"0">>
  /\ visits[<<0, 1>>].n >= 1
  /\ lastOp.out = ERROR_DIV0

\* the formula is one reference token that decodes beyond the grid's rows or columns
BeyondGrid(t, g) ==
  LET k == RunEnd(t, 1, UpperChars)
  IN \/ RowIndex(SubSeq(t, k, Len(t))) >= GridRows(g)
     \/ ColIndex(SubSeq(t, 1, k - 1)) >= GridCols(g)
OutOfRangeRef(raw, g) ==
  LET tokens == ExprTokens(raw)
  IN Len(tokens) = 1 /\ CELL_REF_REGEX(tokens[1]) /\ BeyondGrid(tokens[1], g)

\* C8: a formula that is a single reference token decoding to a row or a
\* column beyond the grid evaluates to "#ERROR:REF", with no cell of the grid
\* read and no nested evaluateFormula frame.
OutOfRange ==
  OutOfRangeRef(TopFormula, grid) =>
    /\ Len(stack) <= 1
    /\ reads = {}
    /\ Done => result = ERROR_REF

OutOfRangeWitness ==
  /\ Done
  /\ OutOfRangeRef(TopFormula, grid)
  /\ result = ERROR_REF
  /\ reads = {}

\* C9: a binary operator applied to a left operand that starts with "#"
\* yields the left operand; otherwise, applied to a right operand that
\* starts with "#", it yields the right operand, whether the left operand
\* is numeric or not.
ErrorPropagation ==
  lastOp.op # <<>> =>
    /\ isErrorValue(lastOp.left) => lastOp.out = lastOp.left
    /\ (~isErrorValue(lastOp.left) /\ isErrorValue(lastOp.right)) => lastOp.out = lastOp.right

\* a non-numeric left operand met an error on its right
ErrorPropagationWitness ==
  /\ lastOp.op # <<>>
  /\ ~isErrorValue(lastOp.left)
  /\ ~isNumeric(lastOp.left)
  /\ lastOp.left # <<>>
  /\ isErrorValue(lastOp.right)
  /\ lastOp.out = lastOp.right

\* C10: when tokens remain unconsumed after the top-level expression has
\* been parsed, evaluateFormula returns "#ERROR".
TrailingTokens ==
  (Done /\ lastExit.path = "parsed" /\ lastExit.pos < Len(lastExit.tokens)) => result = ERROR

\* the depth of open parentheses after the characters of s from i on, or -1
\* once a ')' has closed a parenthesis that was never opened
RECURSIVE ParenDepth(_, _, _)
ParenDepth(s, i, depth) ==
  IF depth < 0 THEN -1
  ELSE IF i > Len(s) THEN depth
  ELSE ParenDepth(s, i + 1, IF s[i] = "(" THEN depth + 1 ELSE IF s[i] = ")" THEN depth - 1 ELSE depth)

Unbalanced(s) == ParenDepth(s, 1, 0) # 0

\* C11: a formula body whose parentheses are unbalanced (an unclosed '(' of
\* a grouping or of a function call, or a stray ')') evaluates to "#ERROR".
UnmatchedParens == (Done /\ Unbalanced(exprOf(TopFormula))) => result = ERROR

\* what the upper-case spelling U of a body returns when U is one function
\* call: the value of evaluateFunction on its name and arguments
UpperCaseResult(U, g) == evaluateFunction(fnNameOf(U), split(argStrOf(U), ","), g)
IsUpperCaseCall(U) == funcMatch(U) /\ U # BURNRATE

\* C12: a formula whose body is a function call in any letter case returns
\* what the upper-case spelling of the same body returns.
CaseInsensitive ==
  (Done /\ IsUpperCaseCall(toUpperCase(exprOf(TopFormula)))) =>
    result = UpperCaseResult(toUpperCase(exprOf(TopFormula)), grid)

(* The operands of an aggregate, stated over sets: an occurrence is an      *)
(* argument position with a cell the argument names, or an argument         *)
(* position whose argument is a literal.                                    *)
NoCurrency(text) == SelectSeq(trim(text), LAMBDA ch : ch # "$" /\ ch # ",")

Span(P, Q) ==
  IF ~P.ok \/ ~Q.ok THEN {}
  ELSE { <<r, c>> : r \in Min2(P.row, Q.row)..Max2(P.row, Q.row),
                    c \in Min2(P.col, Q.col)..Max2(P.col, Q.col) }

NamedCells(t, g) ==
  IF ":" \in Range(t)
  THEN Span(parseCellAddress(split(t, ":")[1], GridRows(g), GridCols(g)),
            parseCellAddress(split(t, ":")[2], GridRows(g), GridCols(g)))
  ELSE IF CELL_REF_REGEX(t) THEN CellOf(parseCellAddress(t, GridRows(g), GridCols(g)))
  ELSE {}

IsLiteral(t) == t # <<>> /\ ":" \notin Range(t) /\ ~CELL_REF_REGEX(t)

CellOccurrences(args, g) ==
  UNION { { <<k, "cell", c>> : c \in NamedCells(trim(args[k]), g) } : k \in DOMAIN args }
LiteralOccurrences(args) ==
  { <<k, "literal", <<>>>> : k \in { j \in DOMAIN args : IsLiteral(trim(args[j])) } }

TextOf(o, args, g) == IF o[2] = "cell" THEN Cell(g, o[3][1], o[3][2]) ELSE trim(args[o[1]])
ValueOf(o, args, g) == Number(NoCurrency(TextOf(o, args, g)))
NumericOccurrences(args, g) ==
  { o \in CellOccurrences(args, g) \cup LiteralOccurrences(args) :
      isNumeric(NoCurrency(TextOf(o, args, g))) }

RECURSIVE Total(_, _, _)
Total(os, args, g) ==
  IF os = {} THEN Int2Rat(0)
  ELSE LET o == CHOOSE o \in os : TRUE IN Add(ValueOf(o, args, g), Total(os \ {o}, args, g))

Least(os, args, g) ==
  ValueOf(CHOOSE o \in os : \A q \in os : ~Less(ValueOf(q, args, g), ValueOf(o, args, g)), args, g)
Greatest(os, args, g) ==
  ValueOf(CHOOSE o \in os : \A q \in os : ~Less(ValueOf(o, args, g), ValueOf(q, args, g)), args, g)

ReferenceAggregate(U, os, args, g) ==
  IF os = {} THEN <<"0">>
  ELSE IF U = SUM THEN String(Total(os, args, g))
  ELSE IF U = AVG THEN String(Div(Total(os, args, g), Int2Rat(Cardinality(os))))
  ELSE IF U = MIN THEN String(Least(os, args, g))
  ELSE String(Greatest(os, args, g))

CalledAs(names) ==
  /\ lastCall.fn = "evaluateFunction"
  /\ toUpperCase(trim(lastCall.name)) \in names
  /\ Len(lastCall.args) > 0

\* C13: with a non-empty argument list, SUM, AVG, MIN and MAX return the sum,
\* the mean, the minimum and the maximum of the operands (range cells,
\* single cells, literals) that are numeric once '$' and ',' are removed,
\* and "0" when there is none.
NumericAggregates ==
  CalledAs({SUM, AVG, MIN, MAX}) =>
    lastCall.out = ReferenceAggregate(toUpperCase(trim(lastCall.name)),
                                      NumericOccurrences(lastCall.args, grid), lastCall.args, grid)

\* AVG over a range with a currency text, a number and non-numeric cells
NumericAggregatesWitness ==
  /\ CalledAs({AVG})
  /\ lastCall.args = <<<<"B","2",":","A","1">>>>
  /\ Cell(grid, 0, 1) = <<"$","1",",","0","0","0">>
  /\ Cell(grid, 1, 0) = <<"8">>
  /\ lastCall.out = <<"5","0","4">>

\* C14: with a non-empty argument list, COUNT returns the number of resolved
\* cells whose raw text is not empty plus the number of literal arguments
\* whose text is not empty.
CountNonEmpty ==
  CalledAs({COUNT}) =>
    lastCall.out = NatStr(Cardinality({ o \in CellOccurrences(lastCall.args, grid) :
                                          TextOf(o, lastCall.args, grid) # <<>> })
                          + Cardinality(LiteralOccurrences(lastCall.args)))

\* C15: evaluateFunction returns "#ERROR:FUNC" exactly when the trimmed,
\* upper-cased name is not a recognized function, "#ERROR:ARGS" exactly when
\* the name is recognized and the argument list is empty, and numeric text
\* in every other case.
FunctionErrors ==
  lastCall.fn = "evaluateFunction" =>
    LET recognized == toUpperCase(trim(lastCall.name)) \in FunctionNames
    IN /\ lastCall.out = ERROR_FUNC <=> ~recognized
       /\ lastCall.out = ERROR_ARGS <=> (recognized /\ Len(lastCall.args) = 0)
       /\ (recognized /\ Len(lastCall.args) > 0) => isNumeric(lastCall.out)

\* C16: a function call inside a larger arithmetic expression is evaluated
\* over all of its comma-separated arguments, ranges included, and its
\* result is the operand: "=1+SUM(2,3)" is "6", and "=SUM(B1:A2)+1" is the
\* sum over the range plus 1.
FunctionOperands ==
  Done =>
    /\ TopFormula = <<"=","1","+","S","U","M","(","2",",","3",")">> => result = <<"6">>
    /\ TopFormula = <<"=","S","U","M","(","B","1",":","A","2",")","+","1">> =>
         result = applyOp(evaluateFunction(SUM, <<<<"B","1",":","A","2">>>>, grid), <<"1">>, <<"+">>)

KnownLabels ==
  { <<0, <<"A">>>>, <<25, <<"Z">>>>, <<26, <<"A","A">>>>, <<51, <<"A","Z">>>>,
    <<52, <<"B","A">>>>, <<701, <<"Z","Z">>>>, <<702, <<"A","A","A">>>> }

\* C17: the label getColumnLabel(i) followed by r + 1 parses back to
\* {row: r, col: i} under bounds that hold it; getColumnLabel is the
\* bijective base-26 enumeration (0 -> A, 25 -> Z, 26 -> AA, 51 -> AZ,
\* 52 -> BA, 701 -> ZZ, 702 -> AAA) and no two indices share a label.
AddressRoundTrip ==
  lastCall.fn = "parseCellAddress" =>
    /\ lastCall.label = lastCall.column \o NatStr(lastCall.row + 1)
    /\ lastCall.out = [ok |-> TRUE, row |-> lastCall.row, col |-> lastCall.col]
    /\ \A k \in KnownLabels : lastCall.col = k[1] => lastCall.column = k[2]
    /\ lastCall.row = 0 =>
         \A j \in 0..MaxColumn : getColumnLabel(j) = lastCall.column => j = lastCall.col

\* the three-letter label AAA10 parses back to row 9 of column 702
AddressRoundTripWitness ==
  /\ lastCall.fn = "parseCellAddress"
  /\ lastCall.row = 9
  /\ lastCall.col = 702
  /\ lastCall.label = <<"A","A","A","1","0">>
  /\ lastCall.out = [ok |-> TRUE, row |-> 9, col |-> 702]

Inside(cell, maxRows, maxCols) == cell[1] \in 0..(maxRows - 1) /\ cell[2] \in 0..(maxCols - 1)

Between(x, a, b) == (a <= x /\ x <= b) \/ (b <= x /\ x <= a)

\* the list holds the rectangle spanned by P and Q once, row by row
IsRowMajorRectangle(list, P, Q) ==
  /\ Len(list) = (Abs(P[1] - Q[1]) + 1) * (Abs(P[2] - Q[2]) + 1)
  /\ { <<list[i].row, list[i].col>> : i \in DOMAIN list }
       = { cell \in (0..RangeRows) \X (0..RangeCols) :
             /\ Between(cell[1], P[1], Q[1])
             /\ Between(cell[2], P[2], Q[2]) }
  /\ \A i \in DOMAIN list : \A j \in DOMAIN list :
       i < j => \/ list[i].row < list[j].row
                \/ list[i].row = list[j].row /\ list[i].col < list[j].col

\* C18: parseRange("P:Q") and parseRange("Q:P") return the same list; for
\* in-bounds P and Q it holds every coordinate of the rectangle they span
\* exactly once in row-major order, so its length is
\* (|rowP - rowQ| + 1) * (|colP - colQ| + 1); it is empty if an endpoint is
\* malformed or out of bounds.
RangeExpansion ==
  lastCall.fn = "parseRange" =>
    /\ lastCall.out = lastCall.back
    /\ IF /\ Inside(lastCall.start.cell, lastCall.maxRows, lastCall.maxCols)
          /\ Inside(lastCall.end.cell, lastCall.maxRows, lastCall.maxCols)
       THEN IsRowMajorRectangle(lastCall.out, lastCall.start.cell, lastCall.end.cell)
       ELSE lastCall.out = <<>>

\* A3:C1 spans the whole 3 x 3 grid although neither endpoint is its first cell
RangeExpansionWitness ==
  /\ lastCall.fn = "parseRange"
  /\ lastCall.start.text = <<"A","3">>
  /\ lastCall.end.text = <<"C","1">>
  /\ Len(lastCall.out) = 9
  /\ lastCall.out[1] = [row |-> 0, col |-> 0]
  /\ lastCall.out[2] = [row |-> 0, col |-> 1]

\* C19: no call of evaluateFormula or evaluateFunction, on any path, changes
\* an entry or the shape of the grid that was passed to it.
ReadOnly ==
  [][/\ ctrl # "idle" => grid' = grid
     /\ lastCall'.fn = "evaluateFunction" => grid' = lastCall'.grid]_vars

\* a call that read a cell holding text has returned the cycle sentinel
ReadOnlyWitness ==
  /\ Done
  /\ result = CYCLE
  /\ \E c \in reads : Cell(grid, c[1], c[2]) # <<>>

\* the parenthesis opened after the name closes at the last character of the
\* body and not before
RECURSIVE ClosesAtEnd(_, _, _)
ClosesAtEnd(body, i, depth) ==
  IF i > Len(body) THEN FALSE
  ELSE IF body[i] = "(" THEN ClosesAtEnd(body, i + 1, depth + 1)
  ELSE IF body[i] # ")" THEN ClosesAtEnd(body, i + 1, depth)
  ELSE IF depth = 1 THEN i = Len(body)
  ELSE ClosesAtEnd(body, i + 1, depth - 1)

WholeCall(body) ==
  LET k == RunEnd(body, 1, UpperChars)
  IN k > 1 /\ k < Len(body) /\ body[k] = "(" /\ ClosesAtEnd(body, k + 1, 1)

\* C20: the entry point hands the whole body to evaluateFunction only when
\* the body is one name followed by a parenthesised list whose closing
\* parenthesis matches the opening one and ends the body; "=SUM(1)+SUM(2)"
\* is an arithmetic expression and evaluates to "3".
WholeBodyShortcut ==
  /\ lastExit.path = "function" => WholeCall(exprOf(lastExit.formula))
  /\ (Done /\ TopFormula = <<"=","S","U","M","(","1",")","+","S","U","M","(","2",")">>)
       => result = <<"3">>

\* the grid in which every formula cell holds a plain non-numeric text
Opaque(g) == [r \in DOMAIN g |-> [c \in DOMAIN g[r] |-> IF isFormula(g[r][c]) THEN <<"x">> ELSE g[r][c]]]

\* the step of evaluateFormula in which evaluateFunction is called
FunctionCallStep ==
  \/ /\ ctrl = "body"
     /\ toUpperCase(exprOf(Top.formula)) # BURNRATE
     /\ funcMatch(exprOf(Top.formula))
  \/ /\ ctrl = "parsePrimary"
     /\ lastCall' # lastCall

BeyondArg(t, g) ==
  IF ":" \in Range(t)
  THEN \E k \in {1, 2} :
         /\ CELL_REF_REGEX(trim(split(t, ":")[k]))
         /\ ~parseCellAddress(split(t, ":")[k], GridRows(g), GridCols(g)).ok
  ELSE CELL_REF_REGEX(t) /\ ~parseCellAddress(t, GridRows(g), GridCols(g)).ok

WithoutBeyond(args, g) ==
  [k \in DOMAIN args |-> IF BeyondArg(trim(args[k]), g) THEN <<>> ELSE args[k]]

\* C22 as stated: a reference beyond the grid is counted by COUNT as the
\* non-empty text "#ERROR:REF", so that COUNT(Z9) is "1".
OutOfRangeCounted ==
  (CalledAs({COUNT}) /\ lastCall.args = <<<<"Z","9">>>>) => lastCall.out = <<"1">>

\* C22: an argument that is a reference beyond the grid, or a range with an
\* endpoint beyond the grid, is skipped: the call returns what it returns
\* for an empty argument in its place, so that COUNT(Z9) is "0".
OutOfRangeSkipped ==
  lastCall.fn = "evaluateFunction" =>
    /\ lastCall.out = evaluateFunction(lastCall.name, WithoutBeyond(lastCall.args, lastCall.grid),
                                       lastCall.grid)
    /\ (CalledAs({COUNT}) /\ lastCall.args = <<<<"Z","9">>>>) => lastCall.out = <<"0">>

\* COUNT(Z9, B1) counts the text of B1 only
OutOfRangeSkippedWitness ==
  /\ CalledAs({COUNT})
  /\ lastCall.args = <<<<"Z","9">>, <<"B","1">>>>
  /\ Cell(lastCall.grid, 0, 1) = <<"x">>
  /\ lastCall.out = <<"1">>

\* C23: on a grid in which no cell holds the text "#ERROR:ARGS",
\* evaluateFormula never returns "#ERROR:ARGS": both call sites split the
\* argument text on ',' and pass at least one argument, and "=SUM()" and
\* "=COUNT()" return "0".
ArgsErrorUnreachable ==
  /\ (ctrl # "called" /\ lastCall.fn = "evaluateFunction") =>
       /\ Len(lastCall.args) >= 1
       /\ lastCall.out # ERROR_ARGS
  /\ (Done /\ \A c \in Cells : Cell(grid, c[1], c[2]) # ERROR_ARGS) => result # ERROR_ARGS
  /\ (Done /\ TopFormula \in { <<"=","S","U","M","(",")">>, <<"=","C","O","U","N","T","(",")">> })
       => result = <<"0">>

\* SUM() as an operand is called with the one empty argument and adds 0
ArgsErrorUnreachableWitness ==
  /\ Done
  /\ TopFormula = <<"=","1","+","S","U","M","(",")">>
  /\ lastCall.fn = "evaluateFunction"
  /\ lastCall.args = <<<<>>>>
  /\ result = <<"1">>

\* C24: if the referenced cell B1 evaluates to an error sentinel S, a formula
\* that applies a unary '+' or '-' to the reference evaluates to S.
UnaryErrorPropagation ==
  (/\ Done
   /\ TopCell = <<0, 0>>
   /\ TopFormula \in { <<"=","-","B","1">>, <<"=","+","B","1">> }
   /\ isFormula(Cell(grid, 0, 1))
   /\ \A v \in visits[<<0, 1>>].vals : isErrorValue(v))
    => result \in visits[<<0, 1>>].vals

\* C25: '$' and ',' are stripped before the value of a referenced cell is
\* used as a number: with "$1,000" in B1, "=B1+1" evaluates to "1001".
CurrencyOperands ==
  (/\ Done
   /\ TopCell = <<0, 0>>
   /\ TopFormula = <<"=","B","1","+","1">>
   /\ Cell(grid, 0, 1) = <<"$","1",",","0","0","0">>)
    => result = <<"1","0","0","1">>

(* --------------------- Spreadsheet: selection -------------------------- *)
InGrid(cell) == cell.row \in Rows /\ cell.col \in Cols
\* a step in which handleKeyDown ran for the key and changed the state
KeyStep(key, shiftKey) ==
  /\ lastEvent'.name = "keydown"
  /\ lastEvent'.key = key
  /\ lastEvent'.shiftKey = shiftKey
  /\ lastEvent'.from = selectedCell
\* the key asks for a move beyond the edge the selection is at
AtEdge(key, shiftKey, cell) ==
  \/ key = "ArrowUp" /\ cell.row = 0
  \/ key = "ArrowDown" /\ cell.row = NumRows - 1
  \/ key = "ArrowLeft" /\ cell.col = 0
  \/ key = "ArrowRight" /\ cell.col = NumCols - 1
  \/ key = "Tab" /\ cell.col = (IF shiftKey THEN 0 ELSE NumCols - 1)
  \/ key = "Enter" /\ cell.row = (IF shiftKey THEN 0 ELSE NumRows - 1)
Distance1(a, b) == (IF a <= b THEN b - a ELSE a - b) <= 1

\* C26: whatever the handlers do, in navigation or in editing mode, the
\* selected cell is a cell of the grid; a key moves the selection by at most
\* one row or one column, and a navigation key pressed at the edge it points
\* to leaves the selection where it is (no wrap-around).
SelectionInGrid ==
  [][ /\ InGrid(selectedCell) /\ InGrid(selectedCell')
      /\ \A key \in Keys, shiftKey \in BOOLEAN :
           KeyStep(key, shiftKey) =>
             /\ Distance1(selectedCell.row, selectedCell'.row)
             /\ Distance1(selectedCell.col, selectedCell'.col)
             /\ AtEdge(key, shiftKey, selectedCell) => selectedCell' = selectedCell ]_vars

\* ArrowDown has committed an edit of the cell in the last row and the last
\* column: the selection has stayed on it
SelectionInGridWitness ==
  /\ lastEvent.name = "keydown"
  /\ lastEvent.key = "ArrowDown"
  /\ lastEvent.from = Coord(NumRows - 1, NumCols - 1)
  /\ selectedCell = lastEvent.from
  /\ editingCell = null
  /\ isCommitting

(* ---------------------- Spreadsheet: commits --------------------------- *)
\* the sheet with text stored at cell and nothing else changed
Stored(sheet, cell, text) == [sheet EXCEPT ![cell.row][cell.col] = text]
Clamped(max, value) == IF value < 0 THEN 0 ELSE IF value > max THEN max ELSE value
\* a step in which a handler ran for the cell in edit mode while no commit
\* was in progress
EditingStep(name) == lastEvent'.name = name /\ editingCell # null /\ ~isCommitting

\* C27: Enter pressed while a cell is edited stores the edit value at that
\* cell, whatever the value (one that starts with '=' included), ends the
\* edit and moves the selection one row down (one row up with Shift), clamped.
EnterCommitsAndMoves ==
  [][ \A shiftKey \in BOOLEAN :
        (EditingStep("keydown") /\ KeyStep("Enter", shiftKey)) =>
          /\ spreadsheetState' = Stored(spreadsheetState, editingCell, editValue)
          /\ editingCell' = null
          /\ selectedCell' =
               Coord(Clamped(NumRows - 1, selectedCell.row + (IF shiftKey THEN -1 ELSE 1)),
                     selectedCell.col) ]_vars

\* a step that commits the edit: a navigation key, the input losing the
\* focus, a click on another cell
CommitStep ==
  \/ EditingStep("keydown") /\ lastEvent'.key \in {"Enter", "Tab", "ArrowUp", "ArrowDown"}
  \/ EditingStep("blur")
  \/ EditingStep("select") /\ selectedCell' # editingCell

\* C28: a commit stores the edit value at the edited cell exactly as typed,
\* whatever the value ("=BURNRATE()" included), and changes no other cell.
CommitsStoreRaw ==
  [][ CommitStep => spreadsheetState' = Stored(spreadsheetState, editingCell, editValue) ]_vars

\* what a paste has to store: the pasted text without '$' and ',', a text
\* that starts with '=' as it is
Sanitized(pasted) ==
  IF startsWith(pasted, "=") THEN pasted ELSE SelectSeq(pasted, LAMBDA ch : ch \notin {"$", ","})

\* C29: a paste into the cell in edit mode commits the pasted text, without
\* its '$' and ',', and not the text the input held before the paste.
PasteStoresSanitized ==
  [][ EditingStep("paste") =>
        \E pasted \in PasteTexts :
          /\ editValue' = pasted
          /\ spreadsheetState' = Stored(spreadsheetState, editingCell, Sanitized(pasted)) ]_vars

(* ----------------------- Spreadsheet: burn rate ------------------------ *)
\* C30: an animation that runs comes to its end, whatever the user edits and
\* commits meanwhile, provided the timers run: burnRateActive is false again,
\* the origin is null and no cell burns.
AnimationEnds ==
  (burnRateActive /\ burnRateOrigin # null)
    ~> (~burnRateActive /\ burnRateOrigin = null /\ burningCells = {})

\* while the animation runs at wave k, the cells that burn are the cells at
\* or below and right of the origin whose distance from it is at most k
BurningSet ==
  burningCells =
    IF burnRateActive /\ burnRateOrigin # null
    THEN { burnKey(r, c) : <<r, c>> \in
             { rc \in Rows \X Cols : /\ rc[1] >= burnRateOrigin.row
                                      /\ rc[2] >= burnRateOrigin.col
                                      /\ (rc[1] - burnRateOrigin.row) + (rc[2] - burnRateOrigin.col)
                                           <= burnRateWave } }
    ELSE {}
====
